---- MODULE Spec2Model ----
(***************************************************************************)
(* A model of the RedFish metadata store, src/mds/mstor.c.                 *)
(*                                                                         *)
(* The leveldb database is the record db with one field per key family:    *)
(*   db.v  the bytes of the version record "v" (<<>> while absent)         *)
(*   db.n  n|nid          -> node payload                                  *)
(*   db.c  c|pnid|name    -> the 8 bytes of the child nid                  *)
(*   db.f  f|nid|off      -> the 8 bytes of the chunk id                   *)
(*   db.h  h|cid          -> the array of OSD ids                          *)
(* Keys are kept in decoded form (every key is built with pack_to_be64, so *)
(* key order is numeric order); the 8-byte VALUES of the c and f families  *)
(* are kept as byte sequences, because the code does not write them all    *)
(* with the same encoder.  The fields of a node payload are written with   *)
(* pack_to_beN and read with unpack_from_beN throughout and are kept as    *)
(* numbers.                                                                *)
(***************************************************************************)
EXTENDS Integers, Sequences, FiniteSets, TLC

VARIABLES db, next_nid, next_cid, opened, hostLE, nput, mc, allocs

vars == <<db, next_nid, next_cid, opened, hostLE, nput, mc, allocs>>

(***************************************************************************)
(* Bounds of the model.                                                    *)
(***************************************************************************)
\* node ids are drawn while next_nid <= MaxNid
MaxNid == 2
\* the requests of one run of SpecScenario
MaxSteps == 4
\* the requests of one run of SpecEngine
MaxRequests == 3
\* chunk ids are drawn while next_cid <= MaxCid
MaxCid == 1
\* longest path, in components
MaxDepth == 2
\* node payloads are rewritten in place (open, chmod, chown, utimes) at most
\* MaxPuts times in one run
MaxPuts == 1

(***************************************************************************)
(* Program constants.                                                      *)
(***************************************************************************)
MSTOR_DEFAULT_MIN_REPL == 2
MSTOR_DEFAULT_MAN_REPL == 3
MSTOR_CUR_VERSION == 1
\* "Fish", as character codes
MSTOR_VERSION_MAGIC == <<70, 105, 115, 104>>
MSTOR_VERSION_MAGIC_LEN == 4
MSTOR_VERSION_BODY_LEN == 8
MSTOR_ROOT_NID == 0
MSTOR_PERM_EXEC == 1
MSTOR_PERM_WRITE == 2
MSTOR_PERM_READ == 4
MREQ_FLAG_CHECK_PERMS == 1
\* mds/mstor.h: the type flag of mode_and_type, above the nine permission bits
MNODE_IS_DIR == 32768
\* mds/limits.h
RF_SUPERUSER_UID == 0
RF_SUPERUSER_GID == 0
\* mds/limits.h: the sentinel of utimes for "leave this time alone"
RF_INVAL_TIME == 0 - 1
\* jorm/jorm_const.h: the value of an integer option the configuration leaves out
JORM_INVAL_INT == 0 - 2
\* mds/limits.h
RF_MAX_OID == 7
\* MSTOR_NID_MAX and MSTOR_CID_MAX are both 0xffffffffffff0000ULL.  The ids of the
\* model are small numbers, so the ceiling stands a few ids above those that the
\* bounded store draws; what the code does below, at and above it is kept.
MSTOR_NID_MAX == MaxNid + 3
MSTOR_CID_MAX == MSTOR_NID_MAX
\* 0755 | MNODE_IS_DIR
MSTOR_ROOT_NID_INIT_MODE == 493 + MNODE_IS_DIR

(***************************************************************************)
(* Bit operations on non-negative integers.                                *)
(***************************************************************************)
RECURSIVE BitAndBits(_, _)
BitAndBits(a, b) ==
    IF a = 0 \/ b = 0 THEN 0
    ELSE (a % 2) * (b % 2) + 2 * BitAndBits(a \div 2, b \div 2)

\* the table of a & b for six-bit operands
And64 == [a \in 0..63 |-> [b \in 0..63 |-> BitAndBits(a, b)]]

\* a & b, six bits at a time
RECURSIVE BitAnd(_, _)
BitAnd(a, b) ==
    IF a = 0 \/ b = 0 THEN 0
    ELSE And64[a % 64][b % 64] + 64 * BitAnd(a \div 64, b \div 64)

\* a & ~b
BitClear(a, b) == a - BitAnd(a, b)

\* a | b
BitOr(a, b) == a + b - BitAnd(a, b)

(***************************************************************************)
(* util/packed.h: big-endian codecs.  A u64 that does not fit the model's  *)
(* integers (its five high bytes are not all zero) decodes to U64_BIG: every*)
(* id and offset the model writes is below 2^24.                           *)
(***************************************************************************)
U64_BIG == 0 - 1

pack_to_be64(x) ==
    <<0, 0, 0, 0, 0, (x \div 65536) % 256, (x \div 256) % 256, x % 256>>

unpack_from_be64(v) ==
    IF \A i \in 1..5 : v[i] = 0
    THEN v[6] * 65536 + v[7] * 256 + v[8]
    ELSE U64_BIG

\* a u32 of 2^16 or more decodes to U32_BIG, except 0xffffffff, which is kept
\* as the number with the same 32 bits, -1
U32_BIG == 0 - 2

pack_to_be32(x) ==
    IF x = 0 - 1 THEN <<255, 255, 255, 255>>
    ELSE <<0, 0, (x \div 256) % 256, x % 256>>

unpack_from_be32(v) ==
    IF v[1] = 0 /\ v[2] = 0 THEN v[3] * 256 + v[4]
    ELSE IF \A i \in 1..4 : v[i] = 255 THEN 0 - 1
    ELSE U32_BIG

Reverse(s) == [i \in 1..Len(s) |-> s[Len(s) + 1 - i]]

\* (const char*)&cid : the object representation of a uint64_t of the build
host_bytes64(x, le) == IF le THEN Reverse(pack_to_be64(x)) ELSE pack_to_be64(x)

(***************************************************************************)
(* The user directory (mds/user.h): users with a primary group and         *)
(* secondary groups.                                                       *)
(***************************************************************************)
Users ==
    { [name |-> "root",  uid |-> RF_SUPERUSER_UID, gid |-> RF_SUPERUSER_GID, groups |-> {}],
      [name |-> "alice", uid |-> 1, gid |-> 1, groups |-> {}],
      [name |-> "bob",   uid |-> 2, gid |-> 2, groups |-> {1}] }

user_in_gid(user, gid) == user.gid = gid \/ gid \in user.groups

(***************************************************************************)
(* mstor_mode_check                                                        *)
(***************************************************************************)
\* the checks that follow "mode &= ~MNODE_IS_DIR; want &= ~MNODE_IS_DIR"
mode_check_perms(val, user, want, mode) ==
    IF BitAnd(want * 64, mode) # 0 THEN "OK"
    ELSE IF val.uid = user.uid /\ BitAnd(want, mode) # 0 THEN "OK"
    ELSE IF user_in_gid(user, val.gid) /\ BitAnd(want * 8, mode) # 0 THEN "OK"
    ELSE "EPERM"

\* the superuser bypass taken before the type is looked at
mode_check_bypass_first(val, flags, user, want, want_dir, is_dir) ==
    IF BitAnd(flags, MREQ_FLAG_CHECK_PERMS) = 0 THEN "OK"
    ELSE IF want_dir /\ ~is_dir THEN "ENOTDIR"
    ELSE IF ~want_dir /\ is_dir THEN "EISDIR"
    ELSE mode_check_perms(val, user, BitClear(want, MNODE_IS_DIR),
                          BitClear(val.mode_and_type, MNODE_IS_DIR))

mode_check_type(val, flags, user, want, want_dir, is_dir) ==
    IF want_dir /\ ~is_dir THEN "ENOTDIR"
    ELSE IF ~want_dir /\ is_dir THEN "EISDIR"
    ELSE IF BitAnd(flags, MREQ_FLAG_CHECK_PERMS) = 0 THEN "OK"
    ELSE mode_check_perms(val, user, BitClear(want, MNODE_IS_DIR),
                          BitClear(val.mode_and_type, MNODE_IS_DIR))

mstor_mode_check(val, flags, user, want) ==
    mode_check_type(val, flags, user, want,
                    BitAnd(want, MNODE_IS_DIR) # 0,
                    BitAnd(val.mode_and_type, MNODE_IS_DIR) # 0)

(***************************************************************************)
(* In-memory nodes.  struct mnode is [nid, val]; val is <<>> for a NULL    *)
(* payload pointer and <<payload>> otherwise.                              *)
(***************************************************************************)
ZeroNode == [nid |-> 0, val |-> <<>>]

Payload(mode_and_type, mtime, atime, length, uid, gid) ==
    [mtime |-> mtime, atime |-> atime, length |-> length,
     uid |-> uid, gid |-> gid, mode_and_type |-> mode_and_type]

\* the result of a handler: return value, database, counters, output fields,
\* and the calls it made to the engine that write (leveldb_put, leveldb_write)
Res(ret, d, nn, nc, out) ==
    [ret |-> ret, db |-> d, next_nid |-> nn, next_cid |-> nc, out |-> out,
     writes |-> <<>>]

NoOut == <<>>

\* f with the keys of D removed / with key k set to v
Without(f, D) == [k \in DOMAIN f \ D |-> f[k]]
With(f, k, v) == [x \in DOMAIN f \cup {k} |-> IF x = k THEN v ELSE f[x]]

(***************************************************************************)
(* One call that writes to the engine: the records it puts, by family, and *)
(* the keys it deletes.  leveldb_put is a call with one record; a write    *)
(* batch handed to leveldb_write is one call however many records it       *)
(* holds, and the engine applies it as a whole.                            *)
(***************************************************************************)
EmptyWrite ==
    [pc |-> <<>>, pn |-> <<>>, pf |-> <<>>, ph |-> <<>>, dc |-> {}, dn |-> {}]

\* leveldb_put of the node record n|nid
leveldb_put_node(nid, val) == [EmptyWrite EXCEPT !.pn = With(<<>>, nid, val)]

Overlay(f, g) ==
    IF DOMAIN g = {} THEN f
    ELSE [x \in DOMAIN f \cup DOMAIN g |-> IF x \in DOMAIN g THEN g[x] ELSE f[x]]

Removed(f, D) == IF D = {} THEN f ELSE Without(f, D)

\* the database after the engine has applied the call w
\* an engine that keeps the record it has when a put names an existing node
engine_apply_first_put_wins(d, w) ==
    [d EXCEPT !.c = Overlay(Removed(d.c, w.dc), w.pc),
              !.n = Overlay(w.pn, Removed(d.n, w.dn)),
              !.f = Overlay(d.f, w.pf),
              !.h = Overlay(d.h, w.ph)]

engine_apply(d, w) ==
    [d EXCEPT !.c = Overlay(Removed(d.c, w.dc), w.pc),
              !.n = Overlay(Removed(d.n, w.dn), w.pn),
              !.f = Overlay(d.f, w.pf),
              !.h = Overlay(d.h, w.ph)]

RECURSIVE engine_apply_all(_, _)
engine_apply_all(d, ws) ==
    IF ws = <<>> THEN d ELSE engine_apply_all(engine_apply(d, Head(ws)), Tail(ws))

\* the result res of a handler that made the calls ws
Wrote(res, ws) == [res EXCEPT !.writes = ws]

SetMax(S) == CHOOSE x \in S : \A y \in S : y <= x
SetMin(S) == CHOOSE x \in S : \A y \in S : x <= y

(***************************************************************************)
(* Path components.  NameSeq lists the component names in byte order, the  *)
(* order in which an iterator returns the child keys of one directory.     *)
(***************************************************************************)
NameSeq == <<"a", "b", "c", "f">>
\* the names of which the requests of Spec build their paths
Names == {"a", "b"}

RECURSIVE PathsUpTo(_)
PathsUpTo(n) ==
    IF n = 0 THEN {<<>>}
    ELSE LET P == PathsUpTo(n - 1)
         IN  P \cup {Append(p, nm) : p \in {q \in P : Len(q) = n - 1}, nm \in Names}

Paths == PathsUpTo(MaxDepth)

udata_lookup_user(name) == CHOOSE u \in Users : u.name = name

(***************************************************************************)
(* mstor_fetch_node, mstor_fetch_child                                     *)
(***************************************************************************)
mstor_fetch_node(d, nid) ==
    IF nid \in DOMAIN d.n
    THEN [ret |-> "OK", node |-> [nid |-> nid, val |-> <<d.n[nid]>>]]
    ELSE [ret |-> "ENOENT", node |-> ZeroNode]

mstor_fetch_child(d, flags, user, pcomp, pnode) ==
    LET lookup(chk) ==
            IF chk # "OK" THEN [ret |-> chk, node |-> ZeroNode]
            ELSE IF <<pnode.nid, pcomp>> \notin DOMAIN d.c
                THEN [ret |-> "ENOENT", node |-> ZeroNode]
            ELSE mstor_fetch_node(d, unpack_from_be64(d.c[<<pnode.nid, pcomp>>]))
    IN  lookup(mstor_mode_check(pnode.val[1], flags, user,
                                MSTOR_PERM_EXEC + MNODE_IS_DIR))

(***************************************************************************)
(* The id allocators.  sync_fetch_and_add is the atomic step both builds   *)
(* make (a fetch-and-add, or an increment under the family's mutex): it    *)
(* gives the value read and the value left in the counter.  The allocator  *)
(* then aborts the process when the id drawn is above the ceiling; both    *)
(* allocators compare with MSTOR_NID_MAX.                                  *)
(***************************************************************************)
\* a fetch that leaves the counter as it was
fetch_without_add(counter) == [id |-> counter, next |-> counter]

sync_fetch_and_add(counter) == [id |-> counter, next |-> counter + 1]

mstor_next_nid(nn) ==
    [id |-> sync_fetch_and_add(nn).id, next |-> sync_fetch_and_add(nn).next,
     abort |-> sync_fetch_and_add(nn).id > MSTOR_NID_MAX]

mstor_next_cid(nc) ==
    [id |-> sync_fetch_and_add(nc).id, next |-> sync_fetch_and_add(nc).next,
     abort |-> sync_fetch_and_add(nc).id > MSTOR_NID_MAX]

(***************************************************************************)
(* mstor_make_node: draws a nid and writes the child entry and the node in *)
(* one batch.  calloc leaves length 0.                                     *)
(***************************************************************************)
\* mstor_make_node whose batch lacks the put of the child entry
make_node_without_child_entry(d, nn, nc, mode_and_type, mtime, atime, uid, gid, pcomp, pnode) ==
    [ret |-> "OK",
     db |-> [d EXCEPT !.n = With(d.n, nn, Payload(mode_and_type, mtime, atime, 0, uid, gid))],
     next_nid |-> nn + 1,
     node |-> [nid |-> nn, val |-> <<Payload(mode_and_type, mtime, atime, 0, uid, gid)>>],
     writes |-> <<leveldb_put_node(nn, Payload(mode_and_type, mtime, atime, 0, uid, gid))>>]

\* mstor_make_node that puts the child entry and the node with two calls
make_node_two_writes(d, nn, nc, mode_and_type, mtime, atime, uid, gid, pcomp, pnode) ==
    IF mstor_next_nid(nn).abort \/ mstor_next_nid(nn).id = MSTOR_NID_MAX
    THEN [ret |-> IF mstor_next_nid(nn).abort THEN "ABORT" ELSE "EOVERFLOW",
          db |-> d, next_nid |-> nn + 1, node |-> ZeroNode, writes |-> <<>>]
    ELSE [ret |-> "OK",
          db |-> [d EXCEPT
                    !.c = With(d.c, <<pnode.nid, pcomp>>, pack_to_be64(nn)),
                    !.n = With(d.n, nn, Payload(mode_and_type, mtime, atime, 0, uid, gid))],
          next_nid |-> nn + 1,
          node |-> [nid |-> nn,
                    val |-> <<Payload(mode_and_type, mtime, atime, 0, uid, gid)>>],
          writes |-> <<[EmptyWrite EXCEPT
                          !.pc = With(<<>>, <<pnode.nid, pcomp>>, pack_to_be64(nn))],
                       leveldb_put_node(nn, Payload(mode_and_type, mtime, atime, 0,
                                                    uid, gid))>>]

mstor_make_node(d, nn, nc, mode_and_type, mtime, atime, uid, gid, pcomp, pnode) ==
    LET write(cnid, body) ==
            [ret |-> "OK",
             db |-> [d EXCEPT !.c = With(d.c, <<pnode.nid, pcomp>>, pack_to_be64(cnid)),
                              !.n = With(d.n, cnid, body)],
             next_nid |-> nn + 1,
             node |-> [nid |-> cnid, val |-> <<body>>],
             writes |-> <<[EmptyWrite EXCEPT
                             !.pc = With(<<>>, <<pnode.nid, pcomp>>, pack_to_be64(cnid)),
                             !.pn = With(<<>>, cnid, body)]>>]
        make(a) ==
            IF a.abort
            THEN [ret |-> "ABORT", db |-> d, next_nid |-> a.next, node |-> ZeroNode,
                  writes |-> <<>>]
            ELSE IF a.id = MSTOR_NID_MAX
            THEN [ret |-> "EOVERFLOW", db |-> d, next_nid |-> a.next, node |-> ZeroNode,
                  writes |-> <<>>]
            ELSE write(a.id, Payload(mode_and_type, mtime, atime, 0, uid, gid))
    IN  make(mstor_next_nid(nn))

mstor_do_creat(d, nn, nc, req, flags, user, pcomp, pnode) ==
    LET creat(chk, mk) ==
            IF chk # "OK" THEN Res(chk, d, nn, nc, NoOut)
            ELSE IF mk.ret # "OK" THEN Res(mk.ret, d, mk.next_nid, nc, NoOut)
            ELSE Wrote(Res("OK", mk.db, mk.next_nid, nc, [nid |-> mk.node.nid]),
                       mk.writes)
    IN  creat(mstor_mode_check(pnode.val[1], flags, user,
                               MSTOR_PERM_WRITE + MNODE_IS_DIR),
              mstor_make_node(d, nn, nc, req.mode, req.ctime, req.ctime,
                              user.uid, user.gid, pcomp, pnode))

\* mstor_do_mkdir that passes the mode on without the directory bit
mkdir_without_dir_bit(d, nn, nc, req, flags, user, pcomp, pnode) ==
    IF mstor_mode_check(pnode.val[1], flags, user, MSTOR_PERM_WRITE + MNODE_IS_DIR) # "OK"
    THEN [ret |-> mstor_mode_check(pnode.val[1], flags, user,
                                   MSTOR_PERM_WRITE + MNODE_IS_DIR),
          db |-> d, next_nid |-> nn, node |-> ZeroNode, writes |-> <<>>]
    ELSE mstor_make_node(d, nn, nc, req.mode, req.ctime, req.ctime,
                         user.uid, user.gid, pcomp, pnode)

\* the result carries the created node as well: the walker descends into it
mstor_do_mkdir(d, nn, nc, req, flags, user, pcomp, pnode) ==
    LET mkdir(chk) ==
            IF chk # "OK"
            THEN [ret |-> chk, db |-> d, next_nid |-> nn, node |-> ZeroNode,
                  writes |-> <<>>]
            ELSE mstor_make_node(d, nn, nc, BitOr(req.mode, MNODE_IS_DIR),
                                 req.ctime, req.ctime, user.uid, user.gid,
                                 pcomp, pnode)
    IN  mkdir(mstor_mode_check(pnode.val[1], flags, user,
                               MSTOR_PERM_WRITE + MNODE_IS_DIR))

\* mstor_do_open that checks the permission and leaves the access time alone
open_without_atime(d, nn, nc, req, flags, user, node) ==
    IF mstor_mode_check(node.val[1], flags, user, MSTOR_PERM_READ) # "OK"
    THEN Res(mstor_mode_check(node.val[1], flags, user, MSTOR_PERM_READ),
             d, nn, nc, NoOut)
    ELSE Res("OK", d, nn, nc, [nid |-> node.nid])

\* the put made before the outcome of the check is looked at
open_puts_before_check(d, nn, nc, req, flags, user, node) ==
    LET hdr == [node.val[1] EXCEPT !.atime = req.atime]
        chk == mstor_mode_check(node.val[1], flags, user, MSTOR_PERM_READ)
    IN  Wrote(Res(chk, [d EXCEPT !.n = With(d.n, node.nid, hdr)], nn, nc,
                  IF chk = "OK" THEN [nid |-> node.nid] ELSE NoOut),
              <<leveldb_put_node(node.nid, hdr)>>)

mstor_do_open(d, nn, nc, req, flags, user, node) ==
    LET open(chk, hdr) ==
            IF chk # "OK" THEN Res(chk, d, nn, nc, NoOut)
            ELSE Wrote(Res("OK", [d EXCEPT !.n = With(d.n, node.nid, hdr)], nn, nc,
                           [nid |-> node.nid]),
                       <<leveldb_put_node(node.nid, hdr)>>)
    IN  open(mstor_mode_check(node.val[1], flags, user, MSTOR_PERM_READ),
             [node.val[1] EXCEPT !.atime = req.atime])

(***************************************************************************)
(* mstor_chunkfind_impl.  The iterator is positioned by a seek to          *)
(* f|nid|start+1 followed by one step back: it then stands on the greatest *)
(* key below f|nid|start+1, which belongs to the file only when the file   *)
(* has a chunk starting at or before start.  The result is the sequence of *)
(* chunk_info entries filled in; its length is the function's return value.*)
(***************************************************************************)
RECURSIVE chunkfind_loop(_, _, _, _, _, _)
chunkfind_loop(d, nid, max_cinfos, end, base, cinfos) ==
    LET next(got, later) ==
            IF later = {} THEN got
            ELSE IF SetMin(later) > end THEN got
            ELSE chunkfind_loop(d, nid, max_cinfos, end, SetMin(later), got)
    IN  IF Len(cinfos) + 1 >= max_cinfos THEN cinfos
        ELSE next(Append(cinfos, [cid |-> unpack_from_be64(d.f[<<nid, base>>]),
                                  start |-> base]),
                  {k[2] : k \in {x \in DOMAIN d.f : x[1] = nid /\ x[2] > base}})

mstor_chunkfind_impl(d, nid, max_cinfos, start, end) ==
    LET find(before) ==
            IF before = {} THEN <<>>
            ELSE chunkfind_loop(d, nid, max_cinfos, end, SetMax(before), <<>>)
    IN  find({k[2] : k \in {x \in DOMAIN d.f : x[1] = nid /\ x[2] < start + 1}})

mstor_do_chunkfind(d, nn, nc, req, flags, user, cnode) ==
    LET find(chk, cinfos) ==
            IF chk # "OK" THEN Res(chk, d, nn, nc, NoOut)
            ELSE Res("OK", d, nn, nc, [cinfos |-> cinfos, num_cinfos |-> Len(cinfos)])
    IN  find(mstor_mode_check(cnode.val[1], flags, user, MSTOR_PERM_READ),
             mstor_chunkfind_impl(d, cnode.nid, req.max_cinfos, req.start, req.end))

\* the placement stub
mstor_assign_oid == <<123, 456>>

(***************************************************************************)
(* mstor_do_chunkalloc.  The request's flags are whatever the caller left  *)
(* in the request: mstor_do_operation routes here without setting them.    *)
(* le is the byte order of the build.                                      *)
(***************************************************************************)
mstor_do_chunkalloc(d, nn, nc, req, le) ==
    LET write(cid, oids) ==
            Wrote(Res("OK",
                      [d EXCEPT !.f = With(d.f, <<req.nid, req.off>>,
                                           host_bytes64(cid, le)),
                                !.h = With(d.h, cid, oids)],
                      nn, nc + 1, [cid |-> cid, oid |-> oids, num_oid |-> Len(oids)]),
                  <<[EmptyWrite EXCEPT
                        !.pf = With(<<>>, <<req.nid, req.off>>, host_bytes64(cid, le)),
                        !.ph = With(<<>>, cid, oids)]>>)
        draw(a) ==
            IF a.abort THEN Res("ABORT", d, nn, a.next, NoOut)
            ELSE write(a.id, mstor_assign_oid)
        alloc(fn, chk, found) ==
            IF fn.ret # "OK" THEN Res(fn.ret, d, nn, nc, NoOut)
            ELSE IF chk # "OK" THEN Res(chk, d, nn, nc, NoOut)
            ELSE IF Len(found) # 0 THEN Res("EINVAL", d, nn, nc, NoOut)
            ELSE draw(mstor_next_cid(nc))
        check(fn) ==
            alloc(fn,
                  mstor_mode_check(fn.node.val[1], req.flags,
                                   udata_lookup_user(req.user), MSTOR_PERM_WRITE),
                  mstor_chunkfind_impl(d, req.nid, 1, req.off, req.off))
    IN  check(mstor_fetch_node(d, req.nid))

(***************************************************************************)
(* add_stat_to_list, mstor_do_listdir, mstor_do_stat.  The output buffer is*)
(* the sequence of stat records packed so far; the caller's buffer is taken*)
(* to be large enough for the directories of the model.                    *)
(***************************************************************************)
\* mstor_leveldb_init: get_valid_repl applied to the zeroed field of the store
get_valid_repl(conf_repl, def_repl) ==
    IF conf_repl = JORM_INVAL_INT THEN def_repl
    ELSE IF conf_repl < 1 THEN def_repl
    ELSE IF conf_repl > RF_MAX_OID THEN RF_MAX_OID
    ELSE conf_repl

man_repl == get_valid_repl(0, MSTOR_DEFAULT_MAN_REPL)

min_repl == get_valid_repl(0, MSTOR_DEFAULT_MIN_REPL)

add_stat_to_list(out, pcomp, node) ==
    Append(out, [name |-> pcomp,
                 mode_and_type |-> node.val[1].mode_and_type,
                 mtime |-> node.val[1].mtime,
                 atime |-> node.val[1].atime,
                 length |-> node.val[1].length,
                 man_repl |-> man_repl,
                 uid |-> node.val[1].uid,
                 gid |-> node.val[1].gid])

\* the names of the child keys c|nid|*, in iterator order
ChildNames(d, nid) == SelectSeq(NameSeq, LAMBDA nm : <<nid, nm>> \in DOMAIN d.c)

\* the loop left at the first child entry whose node is absent
RECURSIVE listdir_loop_until_missing(_, _, _, _)
listdir_loop_until_missing(d, dnid, names, out) ==
    LET entry(fn) ==
            IF fn.ret = "ENOENT" THEN out
            ELSE listdir_loop_until_missing(d, dnid, Tail(names),
                                            add_stat_to_list(out, Head(names), fn.node))
    IN  IF names = <<>> THEN out
        ELSE entry(mstor_fetch_node(d, unpack_from_be64(d.c[<<dnid, Head(names)>>])))

RECURSIVE listdir_loop(_, _, _, _)
listdir_loop(d, dnid, names, out) ==
    LET entry(fn) ==
            IF fn.ret = "ENOENT"
            THEN listdir_loop(d, dnid, Tail(names), out)
            ELSE listdir_loop(d, dnid, Tail(names),
                              add_stat_to_list(out, Head(names), fn.node))
    IN  IF names = <<>> THEN out
        ELSE entry(mstor_fetch_node(d, unpack_from_be64(d.c[<<dnid, Head(names)>>])))

\* mstor_do_listdir that leaves the loop after the first child key
listdir_first_entry(d, nn, nc, req, flags, user, dnode) ==
    IF mstor_mode_check(dnode.val[1], flags, user, MSTOR_PERM_READ + MNODE_IS_DIR) # "OK"
    THEN Res(mstor_mode_check(dnode.val[1], flags, user,
                              MSTOR_PERM_READ + MNODE_IS_DIR), d, nn, nc, <<>>)
    ELSE Res("OK", d, nn, nc,
             listdir_loop(d, dnode.nid,
                          IF ChildNames(d, dnode.nid) = <<>> THEN <<>>
                          ELSE <<Head(ChildNames(d, dnode.nid))>>,
                          <<>>))

mstor_do_listdir(d, nn, nc, req, flags, user, dnode) ==
    LET list(chk) ==
            IF chk # "OK" THEN Res(chk, d, nn, nc, <<>>)
            ELSE Res("OK", d, nn, nc,
                     listdir_loop(d, dnode.nid, ChildNames(d, dnode.nid), <<>>))
    IN  list(mstor_mode_check(dnode.val[1], flags, user,
                              MSTOR_PERM_READ + MNODE_IS_DIR))

mstor_do_stat(d, nn, nc, req, flags, user, pcomp, pnode, cnode) ==
    LET stat(chk) ==
            IF chk # "OK" THEN Res(chk, d, nn, nc, <<>>)
            ELSE Res("OK", d, nn, nc, add_stat_to_list(<<>>, pcomp, cnode))
    IN  stat(IF pnode.val # <<>>
             THEN mstor_mode_check(pnode.val[1], flags, user,
                                   MSTOR_PERM_READ + MNODE_IS_DIR)
             ELSE "OK")

(***************************************************************************)
(* mstor_do_chmod, mstor_do_chown, mstor_do_utimes: each rewrites the node *)
(* with a single put.                                                      *)
(***************************************************************************)
\* the type bit taken from the request along with the permission bits
chmod_takes_type_from_request(d, nn, nc, req, flags, user, node) ==
    LET hdr == [node.val[1] EXCEPT !.mode_and_type = req.mode]
    IN  Wrote(Res("OK", [d EXCEPT !.n = With(d.n, node.nid, hdr)], nn, nc, NoOut),
              <<leveldb_put_node(node.nid, hdr)>>)

mstor_do_chmod(d, nn, nc, req, flags, user, node) ==
    LET old_mode_and_type == node.val[1].mode_and_type
        mode_and_type == IF BitAnd(old_mode_and_type, MNODE_IS_DIR) # 0
                         THEN BitOr(req.mode, MNODE_IS_DIR)
                         ELSE BitClear(req.mode, MNODE_IS_DIR)
        hdr == [node.val[1] EXCEPT !.mode_and_type = mode_and_type]
    IN  Wrote(Res("OK", [d EXCEPT !.n = With(d.n, node.nid, hdr)], nn, nc, NoOut),
              <<leveldb_put_node(node.nid, hdr)>>)

\* the group directory: group name -> gid
Groups == [g0 |-> 0, g1 |-> 1, g2 |-> 2]

udata_lookup_group(name) == Groups[name]

\* mstor_do_chown that lets any member of the new group change the group
chown_without_owner_test(d, nn, nc, req, flags, user, node) ==
    IF /\ BitAnd(flags, MREQ_FLAG_CHECK_PERMS) # 0
       /\ \/ req.new_user # ""
          \/ /\ req.new_group # ""
             /\ ~user_in_gid(user, udata_lookup_group(req.new_group))
    THEN Res("EPERM", d, nn, nc, NoOut)
    ELSE Res("OK",
             [d EXCEPT !.n = With(d.n, node.nid,
                 [node.val[1] EXCEPT
                     !.uid = IF req.new_user # ""
                             THEN udata_lookup_user(req.new_user).uid ELSE @,
                     !.gid = IF req.new_group # ""
                             THEN udata_lookup_group(req.new_group) ELSE @])],
             nn, nc, NoOut)

\* "" stands for a NULL new_user / new_group
mstor_do_chown(d, nn, nc, req, flags, user, node) ==
    LET n1 == IF req.new_user # ""
              THEN [node.val[1] EXCEPT !.uid = udata_lookup_user(req.new_user).uid]
              ELSE node.val[1]
        new_node == IF req.new_group # ""
                    THEN [n1 EXCEPT !.gid = udata_lookup_group(req.new_group)]
                    ELSE n1
        denied ==
            /\ BitAnd(flags, MREQ_FLAG_CHECK_PERMS) # 0
            /\ \/ req.new_user # ""
               \/ /\ req.new_group # ""
                  /\ \/ ~user_in_gid(user, udata_lookup_group(req.new_group))
                     \/ node.val[1].uid # user.uid
    IN  IF denied THEN Res("EPERM", d, nn, nc, NoOut)
        ELSE Wrote(Res("OK", [d EXCEPT !.n = With(d.n, node.nid, new_node)],
                       nn, nc, NoOut),
                   <<leveldb_put_node(node.nid, new_node)>>)

\* both times written, the sentinel included
utimes_sets_both(d, nn, nc, req, flags, user, node) ==
    LET hdr == [node.val[1] EXCEPT !.atime = req.atime, !.mtime = req.mtime]
    IN  Wrote(Res("OK", [d EXCEPT !.n = With(d.n, node.nid, hdr)], nn, nc, NoOut),
              <<leveldb_put_node(node.nid, hdr)>>)

mstor_do_utimes(d, nn, nc, req, flags, user, node) ==
    LET h1 == IF req.atime # RF_INVAL_TIME
              THEN [node.val[1] EXCEPT !.atime = req.atime]
              ELSE node.val[1]
        hdr == IF req.mtime # RF_INVAL_TIME
               THEN [h1 EXCEPT !.mtime = req.mtime]
               ELSE h1
    IN  Wrote(Res("OK", [d EXCEPT !.n = With(d.n, node.nid, hdr)], nn, nc, NoOut),
              <<leveldb_put_node(node.nid, hdr)>>)

(***************************************************************************)
(* leveldb_delete_node, mstor_do_rmdir.  A write batch is the set of child *)
(* keys and the set of node keys it deletes; nothing is removed from the   *)
(* database before leveldb_write applies the whole batch.                  *)
(***************************************************************************)
EmptyBatch == [c |-> {}, n |-> {}]

\* leveldb_delete_node without the delete of the child entry
delete_node_keep_child_entry(pcomp, pnode, cnode, bat) ==
    [c |-> bat.c, n |-> bat.n \cup {cnode.nid}]

leveldb_delete_node(pcomp, pnode, cnode, bat) ==
    [c |-> bat.c \cup {<<pnode.nid, pcomp>>}, n |-> bat.n \cup {cnode.nid}]

leveldb_write(d, bat) ==
    [d EXCEPT !.c = Without(d.c, bat.c), !.n = Without(d.n, bat.n)]

\* the loop over the child keys c|cnode->nid|*
RECURSIVE rmdir_loop(_, _, _, _, _, _, _)
rmdir_loop(d, req, flags, user, cnode, names, bat) ==
    LET check(pcomp2, fn, chk) ==
            IF ~req.rmr THEN [ret |-> "ENOTEMPTY", bat |-> bat]
            ELSE IF fn.ret # "OK" THEN [ret |-> fn.ret, bat |-> bat]
            ELSE IF chk # "OK" THEN [ret |-> chk, bat |-> bat]
            ELSE rmdir_loop(d, req, flags, user, cnode, Tail(names),
                            leveldb_delete_node(pcomp2, cnode, fn.node, bat))
        child(pcomp2, fn) ==
            check(pcomp2, fn,
                  mstor_mode_check(fn.node.val[1], flags, user, MSTOR_PERM_WRITE))
    IN  IF names = <<>> THEN [ret |-> "OK", bat |-> bat]
        ELSE child(Head(names),
                   mstor_fetch_node(d, unpack_from_be64(d.c[<<cnode.nid, Head(names)>>])))

mstor_do_rmdir(d, nn, nc, req, flags, user, pcomp, pnode, cnode) ==
    LET rmdir(chk, lp) ==
            IF chk # "OK" THEN Res(chk, d, nn, nc, NoOut)
            ELSE IF lp.ret # "OK" THEN Res(lp.ret, d, nn, nc, NoOut)
            ELSE Wrote(Res("OK",
                           leveldb_write(d, leveldb_delete_node(pcomp, pnode, cnode,
                                                                lp.bat)),
                           nn, nc, NoOut),
                       <<[EmptyWrite EXCEPT
                             !.dc = leveldb_delete_node(pcomp, pnode, cnode, lp.bat).c,
                             !.dn = leveldb_delete_node(pcomp, pnode, cnode, lp.bat).n]>>)
    IN  IF pnode.val = <<>> THEN Res("EPERM", d, nn, nc, NoOut)
        ELSE rmdir(mstor_mode_check(pnode.val[1], flags, user,
                                    MSTOR_PERM_WRITE + MNODE_IS_DIR),
                   rmdir_loop(d, req, flags, user, cnode,
                              ChildNames(d, cnode.nid), EmptyBatch))

(***************************************************************************)
(* mstor_do_path_operation.  A path is the sequence of its components after*)
(* canonicalize_path; "/" is the empty sequence, for which pcomp stays the *)
(* empty string.  w is the walker's state: database, next_nid, flags,      *)
(* pnode, cnode and pcomp.                                                 *)
(***************************************************************************)
path_dispatch(req, user, nc, w) ==
    CASE req.op = "creat" -> Res("EEXIST", w.d, w.nn, nc, NoOut)
      [] req.op = "open" ->
            mstor_do_open(w.d, w.nn, nc, req, w.flags, user, w.cnode)
      [] req.op = "chunkfind" ->
            mstor_do_chunkfind(w.d, w.nn, nc, req, w.flags, user, w.cnode)
      [] req.op = "mkdirs" -> Res("OK", w.d, w.nn, nc, NoOut)
      [] req.op = "listdir" ->
            mstor_do_listdir(w.d, w.nn, nc, req, w.flags, user, w.cnode)
      [] req.op = "stat" ->
            mstor_do_stat(w.d, w.nn, nc, req, w.flags, user, w.pcomp, w.pnode, w.cnode)
      [] req.op = "chmod" ->
            mstor_do_chmod(w.d, w.nn, nc, req, w.flags, user, w.cnode)
      [] req.op = "chown" ->
            mstor_do_chown(w.d, w.nn, nc, req, w.flags, user, w.cnode)
      [] req.op = "utimes" ->
            mstor_do_utimes(w.d, w.nn, nc, req, w.flags, user, w.cnode)
      [] req.op = "rmdir" ->
            \* the call passes cnode where the handler expects pnode, and pnode
            \* where it expects cnode
            mstor_do_rmdir(w.d, w.nn, nc, req, w.flags, user, w.pcomp, w.cnode, w.pnode)
      [] OTHER -> Res("ENOTSUP", w.d, w.nn, nc, NoOut)

\* a creat that takes any missing component for the one to create
creat_at_any_component(cpc, npc) == TRUE

\* a missing component is created by creat only when it is the last one
creat_is_terminal(cpc, npc) == ~(cpc < npc - 1)

\* the checks stay on for the directories mkdirs has just made
flags_kept_after_mkdir(flags) == flags

\* mreq->flags &= ~MREQ_FLAG_CHECK_PERMS once mkdirs has made a directory
flags_after_mkdir(flags) == BitClear(flags, MREQ_FLAG_CHECK_PERMS)

\* the request ends with result res: the engine calls of the request are
\* those the walk made for mkdirs, then those of the handler
walk_end(w, res) == Wrote(res, w.writes \o res.writes)

RECURSIVE path_walk(_, _, _, _, _)
path_walk(req, user, nc, w, cpc) ==
    IF cpc >= Len(req.path)
    THEN walk_end(w, path_dispatch(req, user, nc, w))
    ELSE
      LET made(pnode, pcomp, mk) ==
              IF mk.ret # "OK"
              THEN walk_end(w, Res(mk.ret, w.d, mk.next_nid, nc, NoOut))
              ELSE path_walk(req, user, nc,
                     [d |-> mk.db, nn |-> mk.next_nid,
                      flags |-> flags_after_mkdir(w.flags),
                      pnode |-> pnode, cnode |-> mk.node, pcomp |-> pcomp,
                      writes |-> w.writes \o mk.writes],
                     cpc + 1)
          step(pnode, pcomp, fc) ==
              IF fc.ret = "ENOENT" THEN
                  CASE req.op = "creat" ->
                         IF ~creat_is_terminal(cpc, Len(req.path))
                         THEN Res("ENOENT", w.d, w.nn, nc, NoOut)
                         ELSE mstor_do_creat(w.d, w.nn, nc, req, w.flags, user,
                                             pcomp, pnode)
                    [] req.op = "mkdirs" ->
                         made(pnode, pcomp,
                              mstor_do_mkdir(w.d, w.nn, nc, req, w.flags, user,
                                             pcomp, pnode))
                    [] OTHER -> Res("ENOENT", w.d, w.nn, nc, NoOut)
              ELSE IF fc.ret # "OK"
                  THEN walk_end(w, Res(fc.ret, w.d, w.nn, nc, NoOut))
              ELSE path_walk(req, user, nc,
                             [w EXCEPT !.pnode = pnode, !.cnode = fc.node,
                                       !.pcomp = pcomp],
                             cpc + 1)
      IN  step(w.cnode, req.path[cpc + 1],
               mstor_fetch_child(w.d, w.flags, user, req.path[cpc + 1], w.cnode))

mstor_do_path_operation(d, nn, nc, req, user) ==
    LET walk(flags, root) ==
            IF root.ret # "OK" THEN Res("ENOSYS", d, nn, nc, NoOut)
            ELSE path_walk(req, user, nc,
                           [d |-> d, nn |-> nn, flags |-> flags, pnode |-> ZeroNode,
                            cnode |-> root.node, pcomp |-> "", writes |-> <<>>], 0)
    IN  walk(IF user.uid = RF_SUPERUSER_UID THEN 0 ELSE MREQ_FLAG_CHECK_PERMS,
             mstor_fetch_node(d, MSTOR_ROOT_NID))

mstor_do_operation(d, nn, nc, req, le) ==
    IF req.op = "chunkalloc" THEN mstor_do_chunkalloc(d, nn, nc, req, le)
    ELSE mstor_do_path_operation(d, nn, nc, req, udata_lookup_user(req.user))

(***************************************************************************)
(* Opening the store: mstor_init formats an empty database and loads a     *)
(* non-empty one.  The store object is calloc'ed, so a counter that the    *)
(* chosen branch does not set is 0.                                        *)
(***************************************************************************)
EmptyDb == [v |-> <<>>, n |-> <<>>, c |-> <<>>, f |-> <<>>, h |-> <<>>]

mstor_leveldb_is_empty(d) ==
    d.v = <<>> /\ DOMAIN d.n = {} /\ DOMAIN d.c = {} /\ DOMAIN d.f = {} /\ DOMAIN d.h = {}

\* the version record: the magic followed by the version as a big-endian u32
mstor_write_version(d, vers) ==
    [d EXCEPT !.v = MSTOR_VERSION_MAGIC \o pack_to_be32(vers)]

\* 0xffffffffU
MSTOR_VERSION_INVAL == 0 - 1

\* mstor_parse_version without the comparison of the magic
parse_version_without_magic(v) ==
    IF Len(v) # MSTOR_VERSION_BODY_LEN THEN MSTOR_VERSION_INVAL
    ELSE unpack_from_be32(SubSeq(v, MSTOR_VERSION_MAGIC_LEN + 1, MSTOR_VERSION_BODY_LEN))

mstor_parse_version(v) ==
    IF Len(v) # MSTOR_VERSION_BODY_LEN THEN MSTOR_VERSION_INVAL
    ELSE IF SubSeq(v, 1, MSTOR_VERSION_MAGIC_LEN) # MSTOR_VERSION_MAGIC
        THEN MSTOR_VERSION_INVAL
    ELSE unpack_from_be32(SubSeq(v, MSTOR_VERSION_MAGIC_LEN + 1, MSTOR_VERSION_BODY_LEN))

\* leveldb_get of an absent key gives a NULL value of length 0, here <<>>
mstor_read_version(d) == mstor_parse_version(d.v)

\* the root written as a regular file
create_new_root_as_file(d, t) ==
    [d EXCEPT !.n = With(d.n, MSTOR_ROOT_NID,
                         Payload(BitClear(MSTOR_ROOT_NID_INIT_MODE, MNODE_IS_DIR), t, t, 0,
                                 RF_SUPERUSER_UID, RF_SUPERUSER_GID))]

\* the leveldb_put of the root node, the second write of mstor_leveldb_create_new
create_new_root(d, t) ==
    [d EXCEPT !.n = With(d.n, MSTOR_ROOT_NID,
                         Payload(MSTOR_ROOT_NID_INIT_MODE, t, t, 0,
                                 RF_SUPERUSER_UID, RF_SUPERUSER_GID))]

mstor_leveldb_create_new(d, t) ==
    [ret |-> "OK",
     db |-> create_new_root(mstor_write_version(d, MSTOR_CUR_VERSION), t),
     next_nid |-> MSTOR_ROOT_NID + 1, next_cid |-> 0]

\* the key before n|MAX is a node key exactly when a node record exists:
\* the c, f and h families sort before n, and the version record after it
\* the highest node id in use, without the step to the next one
load_highest_nid(d) ==
    IF DOMAIN d.n = {} THEN [ret |-> "EINVAL", next_nid |-> 0]
    ELSE [ret |-> "OK", next_nid |-> SetMax(DOMAIN d.n)]

mstor_load_next_nid(d) ==
    IF DOMAIN d.n = {} THEN [ret |-> "EINVAL", next_nid |-> 0]
    ELSE [ret |-> "OK", next_nid |-> SetMax(DOMAIN d.n) + 1]

mstor_load_next_cid(d) ==
    IF DOMAIN d.h = {} THEN 1 ELSE SetMax(DOMAIN d.h) + 1

mstor_leveldb_load(d) ==
    LET load(vers, ln) ==
            IF vers = MSTOR_VERSION_INVAL \/ vers # MSTOR_CUR_VERSION \/ ln.ret # "OK"
            THEN [ret |-> "EINVAL", db |-> d, next_nid |-> 0, next_cid |-> 0]
            ELSE [ret |-> "OK", db |-> d, next_nid |-> ln.next_nid,
                  next_cid |-> mstor_load_next_cid(d)]
    IN  load(mstor_read_version(d), mstor_load_next_nid(d))

mstor_init(d, t) ==
    IF mstor_leveldb_is_empty(d) THEN mstor_leveldb_create_new(d, t)
    ELSE mstor_leveldb_load(d)

(***************************************************************************)
(* Requests.  The sets the request fields are drawn from.                  *)
(***************************************************************************)
Callers == {"root", "alice"}
FormatTimes == {50}
CreatModes == {420}
MkdirModes == {493}
ChmodModes == {0, MNODE_IS_DIR}
CreatTimes == {200}
MkdirTimes == {100}
OpenTimes == {250}
\* <<atime, mtime>>
UtimesArgs == {<<300, RF_INVAL_TIME>>, <<RF_INVAL_TIME, 300>>}
\* <<new_user, new_group>>
ChownArgs == {<<"alice", "">>, <<"", "g1">>}
Offs == {0, 4096}
ArrivalFlags == {0, MREQ_FLAG_CHECK_PERMS}

ReqCreat(u, p, m, t) ==
    [op |-> "creat", user |-> u, path |-> p, mode |-> m, ctime |-> t]
ReqOpen(u, p, t) == [op |-> "open", user |-> u, path |-> p, atime |-> t]
ReqMkdirs(u, p, m, t) ==
    [op |-> "mkdirs", user |-> u, path |-> p, mode |-> m, ctime |-> t]
ReqListdir(u, p) == [op |-> "listdir", user |-> u, path |-> p]
ReqStat(u, p) == [op |-> "stat", user |-> u, path |-> p]
ReqChmod(u, p, m) == [op |-> "chmod", user |-> u, path |-> p, mode |-> m]
ReqChown(u, p, nu, ng) ==
    [op |-> "chown", user |-> u, path |-> p, new_user |-> nu, new_group |-> ng]
ReqUtimes(u, p, at, mt) ==
    [op |-> "utimes", user |-> u, path |-> p, atime |-> at, mtime |-> mt]
ReqRmdir(u, p, rmr) == [op |-> "rmdir", user |-> u, path |-> p, rmr |-> rmr]
ReqChunkfind(u, p, s, e, mx) ==
    [op |-> "chunkfind", user |-> u, path |-> p, start |-> s, end |-> e,
     max_cinfos |-> mx]
ReqChunkalloc(u, nid, off, fl) ==
    [op |-> "chunkalloc", user |-> u, nid |-> nid, off |-> off, flags |-> fl]

\* the request served on the store as it stands
Do(req) == mstor_do_operation(db, next_nid, next_cid, req, hostLE)

\* the store st after serving the requests reqs in a row
RECURSIVE RunScript(_, _, _)
RunScript(st, reqs, le) ==
    IF reqs = <<>> THEN st
    ELSE RunScript(mstor_do_operation(st.db, st.next_nid, st.next_cid, Head(reqs), le),
                   Tail(reqs), le)

(***************************************************************************)
(* The state after mstor_init on an empty database; hostLE is the byte     *)
(* order of the build (TRUE: little-endian).                               *)
(***************************************************************************)
Init ==
    /\ \E t \in FormatTimes :
          \E r \in {mstor_init(EmptyDb, t)} :
              db = r.db /\ next_nid = r.next_nid /\ next_cid = r.next_cid
    /\ opened = TRUE
    /\ hostLE \in BOOLEAN
    /\ nput = 0
    /\ mc = <<>>
    /\ allocs = <<>>

\* one request served from start to end by mstor_do_operation; puts is 1 for
\* the handlers that rewrite a node payload in place.  An abort ends the process.
Serve(req, puts) ==
    /\ opened
    /\ \E r \in {Do(req)} :
           /\ r.next_nid <= MaxNid + 1
           /\ r.next_cid <= MaxCid + 1
           /\ db' = r.db
           /\ next_nid' = r.next_nid
           /\ next_cid' = r.next_cid
           /\ nput' = IF r.ret = "OK" THEN nput + puts ELSE nput
           /\ nput' <= MaxPuts
           /\ opened' = (r.ret # "ABORT")
    /\ UNCHANGED <<hostLE, mc, allocs>>

\* creat and mkdirs are cut off once MaxNid ids are drawn, chunkalloc once MaxCid
\* are, and the rewriting handlers once MaxPuts payloads are rewritten
Creat ==
    /\ next_nid <= MaxNid
    /\ \E u \in Callers, p \in Paths, m \in CreatModes, t \in CreatTimes :
          Serve(ReqCreat(u, p, m, t), 0)

Open ==
    /\ nput < MaxPuts
    /\ \E u \in Callers, p \in Paths, t \in OpenTimes :
          Serve(ReqOpen(u, p, t), 1)

Mkdirs ==
    /\ next_nid <= MaxNid
    /\ \E u \in Callers, p \in Paths, m \in MkdirModes, t \in MkdirTimes :
          Serve(ReqMkdirs(u, p, m, t), 0)

Listdir ==
    /\ opened
    /\ \E u \in Callers, p \in Paths : Serve(ReqListdir(u, p), 0)

Stat ==
    /\ opened
    /\ \E u \in Callers, p \in Paths : Serve(ReqStat(u, p), 0)

Chmod ==
    /\ nput < MaxPuts
    /\ \E u \in Callers, p \in Paths, m \in ChmodModes :
          Serve(ReqChmod(u, p, m), 1)

Chown ==
    /\ nput < MaxPuts
    /\ \E u \in Callers, p \in Paths, a \in ChownArgs :
          Serve(ReqChown(u, p, a[1], a[2]), 1)

Utimes ==
    /\ nput < MaxPuts
    /\ \E u \in Callers, p \in Paths, a \in UtimesArgs :
          Serve(ReqUtimes(u, p, a[1], a[2]), 1)

Rmdir ==
    /\ opened
    /\ \E u \in Callers, p \in Paths, rmr \in BOOLEAN :
          Serve(ReqRmdir(u, p, rmr), 0)

Chunkfind ==
    /\ opened
    /\ \E u \in Callers, p \in Paths :
          Serve(ReqChunkfind(u, p, 0, 4096, 3), 0)

Chunkalloc ==
    /\ next_cid <= MaxCid
    /\ \E u \in Callers, nid \in 0..MaxNid, off \in Offs, fl \in ArrivalFlags :
          Serve(ReqChunkalloc(u, nid, off, fl), 0)

\* mstor_shutdown followed by mstor_init on the same database
Reopen ==
    /\ opened
    /\ \E t \in FormatTimes :
          \E r \in {mstor_init(db, t)} :
              /\ db' = r.db
              /\ next_nid' = r.next_nid
              /\ next_cid' = r.next_cid
              /\ opened' = (r.ret = "OK")
    /\ UNCHANGED <<hostLE, nput, mc, allocs>>

Next ==
    \/ Creat \/ Open \/ Mkdirs \/ Listdir \/ Stat \/ Chmod \/ Chown \/ Utimes
    \/ Rmdir \/ Chunkfind \/ Chunkalloc \/ Reopen

Spec == Init /\ [][Next]_vars

(***************************************************************************)
(* The store driven up to the id ceilings: the superuser creates files and *)
(* directories and allocates chunks until the allocators abort.            *)
(***************************************************************************)
ServeCeiling(req) ==
    \E r \in {Do(req)} :
        /\ db' = r.db
        /\ next_nid' = r.next_nid
        /\ next_cid' = r.next_cid
        /\ opened' = (r.ret # "ABORT")
        /\ UNCHANGED <<hostLE, nput, mc, allocs>>

CeilingCreat ==
    /\ opened /\ next_nid <= MSTOR_NID_MAX + 1
    /\ \E p \in Paths, m \in CreatModes, t \in CreatTimes :
           ServeCeiling(ReqCreat("root", p, m, t))

CeilingMkdirs ==
    /\ opened /\ next_nid <= MSTOR_NID_MAX + 1
    /\ \E p \in Paths, m \in MkdirModes, t \in MkdirTimes :
           ServeCeiling(ReqMkdirs("root", p, m, t))

CeilingChunkalloc ==
    /\ opened /\ next_cid <= MSTOR_CID_MAX + 1
    /\ \E nid \in 0..MSTOR_NID_MAX, off \in Offs :
           ServeCeiling(ReqChunkalloc("root", nid, off, 0))

NextCeiling == CeilingCreat \/ CeilingMkdirs \/ CeilingChunkalloc

\* requests that make a formatted store draw two node ids and two chunk ids
CeilingScript ==
    <<ReqMkdirs("root", <<"a">>, 493, 100),
      ReqCreat("root", <<"a", "a">>, 420, 200),
      ReqChunkalloc("root", 2, 0, 0),
      ReqChunkalloc("root", 2, 4096, 0)>>

\* a store that has served CeilingScript since it was formatted
InitCeiling ==
    /\ hostLE \in BOOLEAN
    /\ \E t \in FormatTimes :
          \E r \in {RunScript(mstor_init(EmptyDb, t), CeilingScript, hostLE)} :
              db = r.db /\ next_nid = r.next_nid /\ next_cid = r.next_cid
    /\ opened = TRUE
    /\ nput = 0
    /\ mc = <<>>
    /\ allocs = <<>>

SpecCeiling == InitCeiling /\ [][NextCeiling]_vars

(***************************************************************************)
(* The permission checker on its own: mc is one call of mstor_mode_check,  *)
(* its arguments drawn in InitModeCheck and its result filled in by        *)
(* ModeCheck.                                                              *)
(***************************************************************************)
PermDigits == {0, 1, 2, 4, 7}
CheckModes ==
    {ty + 64 * o + 8 * g + t :
        ty \in {0, MNODE_IS_DIR}, o \in PermDigits, g \in PermDigits, t \in PermDigits}
CheckWants ==
    {w + ty : w \in {MSTOR_PERM_EXEC, MSTOR_PERM_WRITE, MSTOR_PERM_READ},
              ty \in {0, MNODE_IS_DIR}}

InitModeCheck ==
    /\ db = EmptyDb
    /\ next_nid = 0
    /\ next_cid = 0
    /\ opened = FALSE
    /\ hostLE = FALSE
    /\ nput = 0
    /\ allocs = <<>>
    /\ mc \in [mode_and_type : CheckModes, uid : {1, 2}, gid : {0, 1},
               user : {u.name : u \in Users}, want : CheckWants,
               flags : {0, MREQ_FLAG_CHECK_PERMS}, ret : {"none"}]

ModeCheck ==
    /\ mc.ret = "none"
    /\ mc' = [mc EXCEPT !.ret =
                 mstor_mode_check(
                     Payload(mc.mode_and_type, 0, 0, 0, mc.uid, mc.gid),
                     mc.flags, udata_lookup_user(mc.user), mc.want)]
    /\ UNCHANGED <<db, next_nid, next_cid, opened, hostLE, nput, allocs>>

NextModeCheck == ModeCheck

SpecModeCheck == InitModeCheck /\ [][NextModeCheck]_vars

(***************************************************************************)
(* mstor_init on a database found on disk.  The databases are those that   *)
(* the store itself writes (built here by running requests on a formatted  *)
(* store), each with its version record as written or replaced by another  *)
(* value.  mc records what the one call of mstor_init returned.            *)
(***************************************************************************)
VersionRecords ==
    { <<>>,                                         \* absent
      MSTOR_VERSION_MAGIC,                          \* four bytes
      MSTOR_VERSION_MAGIC \o <<0, 0, 0, 1, 0>>,     \* nine bytes
      <<70, 105, 115, 105>> \o pack_to_be32(1),     \* another magic
      MSTOR_VERSION_MAGIC \o pack_to_be32(0),
      MSTOR_VERSION_MAGIC \o pack_to_be32(2),
      MSTOR_VERSION_MAGIC \o <<1, 0, 0, 0>>,        \* 1, little-endian
      MSTOR_VERSION_MAGIC \o <<255, 255, 255, 255>>,
      MSTOR_VERSION_MAGIC \o pack_to_be32(MSTOR_CUR_VERSION) }

StoreScripts ==
    { <<>>,
      <<ReqCreat("root", <<"a">>, 420, 200)>>,
      <<ReqCreat("root", <<"a">>, 420, 200), ReqChunkalloc("root", 1, 0, 0)>>,
      <<ReqCreat("root", <<"a">>, 420, 200), ReqChunkalloc("root", 1, 0, 0),
        ReqChunkalloc("root", 1, 4096, 0), ReqMkdirs("root", <<"b">>, 493, 100)>>,
      <<ReqMkdirs("root", <<"a", "b">>, 493, 100)>>,
      <<ReqRmdir("root", <<>>, FALSE)>> }

OpenStores(le) ==
    {EmptyDb} \cup
    {RunScript(mstor_init(EmptyDb, 50), reqs, le).db : reqs \in StoreScripts}

InitOpen ==
    /\ hostLE \in BOOLEAN
    /\ db \in {[s EXCEPT !.v = v] : s \in OpenStores(hostLE), v \in VersionRecords}
    /\ next_nid = 0
    /\ next_cid = 0
    /\ opened = FALSE
    /\ nput = 0
    /\ mc = [ret |-> "none"]
    /\ allocs = <<>>

OpenStore ==
    /\ mc.ret = "none"
    /\ \E t \in FormatTimes :
          \E r \in {mstor_init(db, t)} :
              /\ db' = r.db
              /\ next_nid' = r.next_nid
              /\ next_cid' = r.next_cid
              /\ opened' = (r.ret = "OK")
              /\ mc' = [ret |-> r.ret]
    /\ UNCHANGED <<hostLE, nput, allocs>>

NextOpen == OpenStore

SpecOpen == InitOpen /\ [][NextOpen]_vars

(***************************************************************************)
(* The id allocators called by several threads of one process.  allocs     *)
(* holds, for each thread, where it stands in mstor_next_nid or            *)
(* mstor_next_cid, the mutexes of the 32-bit build, and the calls that     *)
(* have returned, in the order of their return; seen is the set of ids     *)
(* that calls of the family had returned when the call began.              *)
(***************************************************************************)
Threads == {1, 2}
\* calls made in one run
MaxCalls == 4
Families == {"nid", "cid"}
NoThread == 0

IdleThread == [pc |-> "idle", fam |-> "nid", id |-> 0, seen |-> {}]

Returned(fam) == {allocs.hist[i].id : i \in {j \in DOMAIN allocs.hist : allocs.hist[j].fam = fam}}

InitAlloc ==
    /\ \E t \in FormatTimes :
          \E r \in {RunScript(mstor_init(EmptyDb, t), CeilingScript, FALSE)} :
              db = r.db /\ next_nid = r.next_nid /\ next_cid = r.next_cid
    /\ opened = TRUE
    /\ hostLE = FALSE
    /\ nput = 0
    /\ mc = <<>>
    /\ allocs \in [th : {[t \in Threads |-> IdleThread]},
                  lock : {[f \in Families |-> NoThread]},
                  hist : {<<>>}, ncalls : {0}, wordsize : {32, 64}]

\* a thread enters mstor_next_nid or mstor_next_cid
AllocCall ==
    /\ opened /\ allocs.ncalls < MaxCalls
    /\ \E t \in Threads, fam \in Families :
           /\ allocs.th[t].pc = "idle"
           /\ allocs' = [allocs EXCEPT
                           !.th[t] = [pc |-> "called", fam |-> fam, id |-> 0,
                                      seen |-> Returned(fam)],
                           !.ncalls = @ + 1]
    /\ UNCHANGED <<db, next_nid, next_cid, opened, hostLE, nput, mc>>

\* the counter is read and advanced, and the old value kept as the id
FetchAndAdd(t, pc) ==
    /\ allocs' = [allocs EXCEPT
                    !.th[t].pc = pc,
                    !.th[t].id = sync_fetch_and_add(
                                     IF allocs.th[t].fam = "nid" THEN next_nid
                                     ELSE next_cid).id]
    /\ next_nid' = IF allocs.th[t].fam = "nid"
                   THEN sync_fetch_and_add(next_nid).next ELSE next_nid
    /\ next_cid' = IF allocs.th[t].fam = "cid"
                   THEN sync_fetch_and_add(next_cid).next ELSE next_cid

\* 64-bit build: __sync_fetch_and_add
AllocFetchAdd ==
    /\ opened /\ allocs.wordsize = 64
    /\ \E t \in Threads :
           /\ allocs.th[t].pc = "called"
           /\ FetchAndAdd(t, "drawn")
    /\ UNCHANGED <<db, opened, hostLE, nput, mc>>

\* 32-bit build: pthread_mutex_lock of the family's mutex
AllocLock ==
    /\ opened /\ allocs.wordsize = 32
    /\ \E t \in Threads :
           /\ allocs.th[t].pc = "called"
           /\ allocs.lock[allocs.th[t].fam] = NoThread
           /\ allocs' = [allocs EXCEPT !.th[t].pc = "locked",
                                     !.lock[allocs.th[t].fam] = t]
    /\ UNCHANGED <<db, next_nid, next_cid, opened, hostLE, nput, mc>>

\* 32-bit build: nid = mstor->next_nid++
AllocIncrement ==
    /\ opened /\ allocs.wordsize = 32
    /\ \E t \in Threads :
           /\ allocs.th[t].pc = "locked"
           /\ FetchAndAdd(t, "incremented")
    /\ UNCHANGED <<db, opened, hostLE, nput, mc>>

\* 32-bit build: pthread_mutex_unlock
AllocUnlock ==
    /\ opened /\ allocs.wordsize = 32
    /\ \E t \in Threads :
           /\ allocs.th[t].pc = "incremented"
           /\ allocs' = [allocs EXCEPT !.th[t].pc = "drawn",
                                     !.lock[allocs.th[t].fam] = NoThread]
    /\ UNCHANGED <<db, next_nid, next_cid, opened, hostLE, nput, mc>>

\* the ceiling test and the return; abort ends the process
AllocReturn ==
    /\ opened
    /\ \E t \in Threads :
           /\ allocs.th[t].pc = "drawn"
           /\ IF allocs.th[t].id > MSTOR_NID_MAX
              THEN opened' = FALSE /\ allocs' = allocs
              ELSE /\ opened' = opened
                   /\ allocs' = [allocs EXCEPT
                                   !.th[t] = IdleThread,
                                   !.hist = Append(@, [fam |-> allocs.th[t].fam,
                                                       id |-> allocs.th[t].id,
                                                       seen |-> allocs.th[t].seen])]
    /\ UNCHANGED <<db, next_nid, next_cid, hostLE, nput, mc>>

NextAlloc ==
    \/ AllocCall \/ AllocFetchAdd \/ AllocLock \/ AllocIncrement \/ AllocUnlock
    \/ AllocReturn

SpecAlloc == InitAlloc /\ [][NextAlloc]_vars

(***************************************************************************)
(* Vocabulary of the properties.                                           *)
(***************************************************************************)
UserNames == {u.name : u \in Users}

NoNid == 0 - 1

Front(p) == SubSeq(p, 1, Len(p) - 1)
Last(p) == p[Len(p)]

\* the flags mstor_do_path_operation gives a request of this user
PathFlags(user) ==
    IF user.uid = RF_SUPERUSER_UID THEN 0 ELSE MREQ_FLAG_CHECK_PERMS

IsDir(d, nid) == BitAnd(d.n[nid].mode_and_type, MNODE_IS_DIR) # 0

HasChildren(d, nid) == \E k \in DOMAIN d.c : k[1] = nid

\* the node a path names in database d, NoNid when it names none
RECURSIVE Lookup(_, _)
Lookup(d, p) ==
    IF p = <<>>
    THEN IF MSTOR_ROOT_NID \in DOMAIN d.n THEN MSTOR_ROOT_NID ELSE NoNid
    ELSE LET child(par) ==
                 IF par = NoNid \/ <<par, Last(p)>> \notin DOMAIN d.c THEN NoNid
                 ELSE IF unpack_from_be64(d.c[<<par, Last(p)>>]) \in DOMAIN d.n
                     THEN unpack_from_be64(d.c[<<par, Last(p)>>])
                 ELSE NoNid
         IN  child(Lookup(d, Front(p)))

\* every directory on the way to p lets the user through
CanTraverse(d, user, p) ==
    \A i \in 0..(Len(p) - 1) :
        /\ Lookup(d, SubSeq(p, 1, i)) # NoNid
        /\ mstor_mode_check(d.n[Lookup(d, SubSeq(p, 1, i))], PathFlags(user), user,
                            MSTOR_PERM_EXEC + MNODE_IS_DIR) = "OK"

\* the parent directory of p lets the user write
ParentWritable(d, user, p) ==
    mstor_mode_check(d.n[Lookup(d, Front(p))], PathFlags(user), user,
                     MSTOR_PERM_WRITE + MNODE_IS_DIR) = "OK"

\* the nodes below nid, at every depth
RECURSIVE Descendants(_, _, _)
Descendants(d, nid, fuel) ==
    IF fuel = 0 THEN {}
    ELSE LET kids == {unpack_from_be64(d.c[k]) : k \in {x \in DOMAIN d.c : x[1] = nid}}
         IN  kids \cup UNION {Descendants(d, c, fuel - 1) : c \in kids}

(***************************************************************************)
(* C1: rmdir on the root path "/", recursive or not, by any user, returns  *)
(* Permission and writes nothing.                                          *)
(***************************************************************************)
C1_RmdirRootIsDenied ==
    opened =>
        \A u \in UserNames, rmr \in BOOLEAN :
            /\ Do(ReqRmdir(u, <<>>, rmr)).ret = "EPERM"
            /\ Do(ReqRmdir(u, <<>>, rmr)).db = db

(***************************************************************************)
(* C2: in every state reachable from a formatted store, the node record of *)
(* nid 0 exists and has the IS_DIR flag.                                   *)
(***************************************************************************)
C2_RootNodeAlwaysExists ==
    /\ MSTOR_ROOT_NID \in DOMAIN db.n
    /\ IsDir(db, MSTOR_ROOT_NID)

(***************************************************************************)
(* C3: a non-recursive rmdir of an existing directory other than the root, *)
(* by a caller who may write its parent, returns NotEmpty exactly when the *)
(* directory has a child entry; on an empty directory it succeeds and      *)
(* deletes exactly the directory's entry in its parent and its node.       *)
(***************************************************************************)
C3_RmdirNonRecursive ==
    opened =>
        \A u \in UserNames, p \in Paths \ {<<>>} :
            ( /\ Lookup(db, p) # NoNid
              /\ IsDir(db, Lookup(db, p))
              /\ CanTraverse(db, udata_lookup_user(u), p)
              /\ ParentWritable(db, udata_lookup_user(u), p) )
            => IF HasChildren(db, Lookup(db, p))
               THEN /\ Do(ReqRmdir(u, p, FALSE)).ret = "ENOTEMPTY"
                    /\ Do(ReqRmdir(u, p, FALSE)).db = db
               ELSE /\ Do(ReqRmdir(u, p, FALSE)).ret = "OK"
                    /\ Do(ReqRmdir(u, p, FALSE)).db =
                         [db EXCEPT
                            !.c = Without(db.c, {<<Lookup(db, Front(p)), Last(p)>>}),
                            !.n = Without(db.n, {Lookup(db, p)})]

(***************************************************************************)
(* C4: a recursive rmdir by the superuser of a directory other than the    *)
(* root that has descendants succeeds, deletes in one batch the node and   *)
(* the child entry of the directory and of every descendant, and leaves a  *)
(* store in which stat of the path returns NotFound.                       *)
(***************************************************************************)
RmdirTreeResult(d, p) ==
    [d EXCEPT
       !.n = Without(d.n, {Lookup(d, p)} \cup Descendants(d, Lookup(d, p), MaxNid)),
       !.c = Without(d.c,
                {k \in DOMAIN d.c :
                    \/ k = <<Lookup(d, Front(p)), Last(p)>>
                    \/ k[1] \in {Lookup(d, p)} \cup Descendants(d, Lookup(d, p), MaxNid)})]

C4_RmdirRecursive ==
    opened =>
        \A p \in Paths \ {<<>>} :
            ( /\ Lookup(db, p) # NoNid
              /\ IsDir(db, Lookup(db, p))
              /\ HasChildren(db, Lookup(db, p)) )
            => /\ Do(ReqRmdir("root", p, TRUE)).ret = "OK"
               /\ Do(ReqRmdir("root", p, TRUE)).db = RmdirTreeResult(db, p)
               /\ mstor_do_operation(Do(ReqRmdir("root", p, TRUE)).db, next_nid,
                                     next_cid, ReqStat("root", p), hostLE).ret = "ENOENT"

(***************************************************************************)
(* C5: when the node's type matches the request and permission checking is *)
(* on, a check for one permission bit w is granted exactly when the        *)
(* "other" bits of the mode contain w, or the caller owns the node and the *)
(* "owner" bits contain w, or the caller is in the node's group and the    *)
(* "group" bits contain w.                                                 *)
(***************************************************************************)
PolicyGrants(mode_and_type, uid, gid, user, w) ==
    \/ BitAnd(mode_and_type % 8, w) # 0
    \/ user.uid = uid /\ BitAnd((mode_and_type \div 64) % 8, w) # 0
    \/ user_in_gid(user, gid) /\ BitAnd((mode_and_type \div 8) % 8, w) # 0

C5_ModeCheckPolicy ==
    ( /\ mc # <<>>
      /\ mc.ret # "none"
      /\ mc.flags = MREQ_FLAG_CHECK_PERMS
      /\ (mc.want >= MNODE_IS_DIR) = (mc.mode_and_type >= MNODE_IS_DIR) )
    => mc.ret = IF PolicyGrants(mc.mode_and_type, mc.uid, mc.gid,
                                udata_lookup_user(mc.user), mc.want % MNODE_IS_DIR)
                THEN "OK" ELSE "EPERM"

(***************************************************************************)
(* C6: chunkalloc applies the permission policy of the path operations     *)
(* whatever flags the request arrives with: a caller who is not the        *)
(* superuser and whom the file's mode refuses write gets Permission and    *)
(* nothing is written, and the superuser is never refused by mode bits.    *)
(***************************************************************************)
C6_ChunkallocPermissionPolicy ==
    opened =>
        \A u \in UserNames, nid \in DOMAIN db.n, off \in Offs, fl \in ArrivalFlags :
            ~IsDir(db, nid) =>
                IF udata_lookup_user(u).uid = RF_SUPERUSER_UID
                THEN Do(ReqChunkalloc(u, nid, off, fl)).ret # "EPERM"
                ELSE mstor_mode_check(db.n[nid], MREQ_FLAG_CHECK_PERMS,
                                      udata_lookup_user(u), MSTOR_PERM_WRITE) = "EPERM"
                     => /\ Do(ReqChunkalloc(u, nid, off, fl)).ret = "EPERM"
                        /\ Do(ReqChunkalloc(u, nid, off, fl)).db = db

(***************************************************************************)
(* C7: chunkalloc(nid, off) by a caller allowed to write the file returns  *)
(* InvalidArgument and writes nothing whenever the file already has a      *)
(* chunk record whose start offset is off or greater; an existing chunk    *)
(* record is never overwritten; an allocation beyond every existing chunk  *)
(* succeeds.                                                               *)
(***************************************************************************)
C7_ChunkallocRejectsOverlap ==
    opened =>
        \A u \in UserNames, nid \in DOMAIN db.n, off \in Offs, fl \in ArrivalFlags :
            ( /\ ~IsDir(db, nid)
              /\ mstor_mode_check(db.n[nid], fl, udata_lookup_user(u),
                                  MSTOR_PERM_WRITE) = "OK" )
            => IF \E k \in DOMAIN db.f : k[1] = nid /\ k[2] >= off
               THEN /\ Do(ReqChunkalloc(u, nid, off, fl)).ret = "EINVAL"
                    /\ Do(ReqChunkalloc(u, nid, off, fl)).db = db
               ELSE Do(ReqChunkalloc(u, nid, off, fl)).ret = "OK"

(***************************************************************************)
(* C8: every successful chunkalloc, the first one on a freshly formatted   *)
(* store included, returns a chunk id of at least 1 and the replica set    *)
(* {123, 456}, and writes exactly the file-chunk record of (nid, off) and  *)
(* the chunk-replicas record of the new chunk id.                          *)
(***************************************************************************)
C8_ChunkallocResult ==
    opened =>
        \A u \in UserNames, nid \in 0..MaxNid, off \in Offs, fl \in ArrivalFlags :
            Do(ReqChunkalloc(u, nid, off, fl)).ret = "OK"
            => /\ Do(ReqChunkalloc(u, nid, off, fl)).out.cid >= 1
               /\ Do(ReqChunkalloc(u, nid, off, fl)).out.oid = <<123, 456>>
               /\ \E val \in {pack_to_be64(Do(ReqChunkalloc(u, nid, off, fl)).out.cid),
                              Reverse(pack_to_be64(Do(ReqChunkalloc(u, nid, off, fl)).out.cid))} :
                      Do(ReqChunkalloc(u, nid, off, fl)).db =
                          [db EXCEPT
                             !.f = With(db.f, <<nid, off>>, val),
                             !.h = With(db.h, Do(ReqChunkalloc(u, nid, off, fl)).out.cid,
                                        <<123, 456>>)]

(***************************************************************************)
(* C9: in every reachable state, each file-chunk record belongs to a node  *)
(* that exists and is not a directory, and the chunk id read big-endian    *)
(* from its value has a chunk-replicas record.                             *)
(***************************************************************************)
C9_ChunkRecordsConsistent ==
    \A k \in DOMAIN db.f :
        /\ k[1] \in DOMAIN db.n
        /\ ~IsDir(db, k[1])
        /\ unpack_from_be64(db.f[k]) \in DOMAIN db.h

(***************************************************************************)
(* C10: after chunkalloc(nid, off) returns chunk id c, a chunk lookup on   *)
(* the same file over a range containing off, with room for the result,    *)
(* reports an entry with start = off and cid = c.                          *)
(***************************************************************************)
C10_ChunkallocChunkfindRoundTrip ==
    opened =>
        \A u \in UserNames, nid \in 0..MaxNid, off \in Offs, fl \in ArrivalFlags :
            Do(ReqChunkalloc(u, nid, off, fl)).ret = "OK"
            => \E i \in DOMAIN mstor_chunkfind_impl(
                            Do(ReqChunkalloc(u, nid, off, fl)).db, nid, 3, off, off) :
                   mstor_chunkfind_impl(
                       Do(ReqChunkalloc(u, nid, off, fl)).db, nid, 3, off, off)[i]
                   = [cid |-> Do(ReqChunkalloc(u, nid, off, fl)).out.cid, start |-> off]

(***************************************************************************)
(* C11: in every reachable state, for every child record c|p|name -> child *)
(* the node records of p and of child exist and p is a directory.          *)
(***************************************************************************)
C11_ChildRecordsConsistent ==
    \A k \in DOMAIN db.c :
        /\ k[1] \in DOMAIN db.n
        /\ IsDir(db, k[1])
        /\ unpack_from_be64(db.c[k]) \in DOMAIN db.n

\* a store with a child record below a directory other than the root
C11_Witness == \E k \in DOMAIN db.c : k[1] # MSTOR_ROOT_NID

(***************************************************************************)
(* C12: in every reachable state, every existing node other than the root  *)
(* is the value of exactly one child record.                               *)
(***************************************************************************)
C12_OneNamePerNode ==
    \A nid \in DOMAIN db.n \ {MSTOR_ROOT_NID} :
        Cardinality({k \in DOMAIN db.c : unpack_from_be64(db.c[k]) = nid}) = 1

\* two nodes besides the root, one below the other
C12_Witness ==
    /\ Cardinality(DOMAIN db.n) = 3
    /\ \E k \in DOMAIN db.c : k[1] # MSTOR_ROOT_NID

(***************************************************************************)
(* C13: under any interleaving of threads calling the id allocators, no    *)
(* two calls of one family return the same id, and every returned id is    *)
(* greater than every id returned by a call of that family that completed  *)
(* earlier.  As stated, "completed earlier" compares the instants of       *)
(* return: the calls are taken in the order in which they returned.        *)
(***************************************************************************)
C13_IdsIncreaseInReturnOrder ==
    allocs # <<>> =>
        \A i \in DOMAIN allocs.hist, j \in DOMAIN allocs.hist :
            (i < j /\ allocs.hist[i].fam = allocs.hist[j].fam)
            => allocs.hist[i].id < allocs.hist[j].id

(***************************************************************************)
(* C13, amended: no two calls of one family return the same id, and every  *)
(* returned id is greater than every id returned by a call of that family  *)
(* that had completed before the call began.                               *)
(***************************************************************************)
C13_IdsUniqueAndIncreasing ==
    allocs # <<>> =>
        /\ \A i \in DOMAIN allocs.hist, j \in DOMAIN allocs.hist :
               (i # j /\ allocs.hist[i].fam = allocs.hist[j].fam)
               => allocs.hist[i].id # allocs.hist[j].id
        /\ \A i \in DOMAIN allocs.hist :
               \A x \in allocs.hist[i].seen : allocs.hist[i].id > x

\* three calls of one family have returned: two that overlapped, the one that
\* drew first returning last, and one that began after another had returned
C13_Witness ==
    /\ allocs # <<>>
    /\ \E i \in DOMAIN allocs.hist, j \in DOMAIN allocs.hist :
           /\ i < j
           /\ allocs.hist[i].fam = allocs.hist[j].fam
           /\ allocs.hist[i].id > allocs.hist[j].id
    /\ \E i \in DOMAIN allocs.hist : allocs.hist[i].seen # {}

(***************************************************************************)
(* C14: once a counter has reached the ceiling MAX, the next creat or      *)
(* mkdirs (for node ids) or chunkalloc (for chunk ids) aborts the process: *)
(* no request returns normally after drawing the id MAX, and no n record   *)
(* and no h record with an id of MAX or more is ever written.              *)
(***************************************************************************)
C14_CeilingAborts ==
    /\ \A nid \in DOMAIN db.n : nid < MSTOR_NID_MAX
    /\ \A cid \in DOMAIN db.h : cid < MSTOR_CID_MAX
    /\ opened =>
         /\ \A p \in Paths, m \in CreatModes, t \in CreatTimes :
                ( /\ next_nid <= MSTOR_NID_MAX
                  /\ Do(ReqCreat("root", p, m, t)).next_nid > MSTOR_NID_MAX )
                => Do(ReqCreat("root", p, m, t)).ret = "ABORT"
         /\ \A p \in Paths, m \in MkdirModes, t \in MkdirTimes :
                ( /\ next_nid <= MSTOR_NID_MAX
                  /\ Do(ReqMkdirs("root", p, m, t)).next_nid > MSTOR_NID_MAX )
                => Do(ReqMkdirs("root", p, m, t)).ret = "ABORT"
         /\ \A nid \in 0..MSTOR_NID_MAX, off \in Offs :
                ( /\ next_cid <= MSTOR_CID_MAX
                  /\ Do(ReqChunkalloc("root", nid, off, 0)).next_cid > MSTOR_CID_MAX )
                => Do(ReqChunkalloc("root", nid, off, 0)).ret = "ABORT"

C16_OpenChecksVersion ==
    [][ ( /\ mc # <<>>
          /\ mc.ret = "none"
          /\ ~mstor_leveldb_is_empty(db) )
        => IF db.v = <<70, 105, 115, 104, 0, 0, 0, 1>>
           THEN DOMAIN db.n # {} => (opened' /\ db' = db)
           ELSE /\ ~opened'
                /\ mc'.ret # "OK"
                /\ db' = db
                /\ next_nid' = 0
                /\ next_cid' = 0 ]_vars

\* a store with nodes and an eight-byte version record was refused
C16_Witness ==
    /\ mc = [ret |-> "EINVAL"]
    /\ ~opened
    /\ Len(db.v) = 8
    /\ Cardinality(DOMAIN db.n) >= 2

(***************************************************************************)
(* C17: creat(path) returns NotFound and writes nothing when a component   *)
(* of path before the last is absent; returns AlreadyExists and writes     *)
(* nothing when the last component exists, as a file or as a directory,    *)
(* the path "/" included; and it creates a node only when every ancestor   *)
(* exists and the last component is absent.  The two error cases are those *)
(* of a caller whom the walk lets through every directory before the       *)
(* component in question.                                                  *)
(***************************************************************************)
\* the length of the shortest prefix of p that names no node, 0 when p names one
FirstMissing(d, p) ==
    IF \A i \in 0..Len(p) : Lookup(d, SubSeq(p, 1, i)) # NoNid THEN 0
    ELSE SetMin({i \in 0..Len(p) : Lookup(d, SubSeq(p, 1, i)) = NoNid})

C17_CreatErrors ==
    opened =>
        \A u \in UserNames, p \in Paths, m \in CreatModes, t \in CreatTimes :
            /\ ( /\ MSTOR_ROOT_NID \in DOMAIN db.n
                 /\ FirstMissing(db, p) \in 1..(Len(p) - 1)
                 /\ CanTraverse(db, udata_lookup_user(u),
                                SubSeq(p, 1, FirstMissing(db, p))) )
               => /\ Do(ReqCreat(u, p, m, t)).ret = "ENOENT"
                  /\ Do(ReqCreat(u, p, m, t)).db = db
            /\ ( /\ MSTOR_ROOT_NID \in DOMAIN db.n
                 /\ FirstMissing(db, p) = 0
                 /\ CanTraverse(db, udata_lookup_user(u), p) )
               => /\ Do(ReqCreat(u, p, m, t)).ret = "EEXIST"
                  /\ Do(ReqCreat(u, p, m, t)).db = db
            /\ ( Do(ReqCreat(u, p, m, t)).ret = "OK"
                 \/ Do(ReqCreat(u, p, m, t)).db # db )
               => /\ Len(p) >= 1
                  /\ FirstMissing(db, p) = Len(p)
                  /\ Do(ReqCreat(u, p, m, t)).ret = "OK"
                  /\ Do(ReqCreat(u, p, m, t)).db # db

\* a store with a directory /a, a file /a/b, and no /b: creat meets an existing
\* file, an existing directory and a missing ancestor
C17_Witness ==
    /\ opened
    /\ Lookup(db, <<"a">>) # NoNid
    /\ IsDir(db, Lookup(db, <<"a">>))
    /\ Lookup(db, <<"a", "b">>) # NoNid
    /\ ~IsDir(db, Lookup(db, <<"a", "b">>))
    /\ Lookup(db, <<"b">>) = NoNid

(***************************************************************************)
(* creat, open, stat in a row.                                             *)
(***************************************************************************)
\* the store after a successful creat of p: one node record under a nid the
\* store did not hold, one child entry in the parent, nothing else touched
CreatAddsOneNode(d, r1, user, p, m, t) ==
    /\ r1.out.nid \notin DOMAIN d.n
    /\ <<Lookup(d, Front(p)), Last(p)>> \notin DOMAIN d.c
    /\ r1.db = [d EXCEPT
                  !.n = With(d.n, r1.out.nid, Payload(m, t, t, 0, user.uid, user.gid)),
                  !.c = With(d.c, <<Lookup(d, Front(p)), Last(p)>>,
                             pack_to_be64(r1.out.nid))]

\* what stat reports of a file made by creat(m, t) of user and opened at at
StatOfOpenedFile(r3, user, p, m, t, at) ==
    /\ r3.ret = "OK"
    /\ Len(r3.out) = 1
    /\ r3.out[1].name = Last(p)
    /\ BitAnd(r3.out[1].mode_and_type, MNODE_IS_DIR) = 0
    /\ r3.out[1].mode_and_type = m
    /\ r3.out[1].length = 0
    /\ r3.out[1].uid = user.uid
    /\ r3.out[1].gid = user.gid
    /\ r3.out[1].mtime = t
    /\ r3.out[1].atime = at

StatAfterOpen(r2, u, p, m, t, at) ==
    r2.ret = "OK" =>
        StatOfOpenedFile(mstor_do_operation(r2.db, r2.next_nid, r2.next_cid,
                                            ReqStat(u, p), hostLE),
                         udata_lookup_user(u), p, m, t, at)

OpenAfterCreat(r1, u, p, m, t, at) ==
    r1.ret = "OK" =>
        /\ CreatAddsOneNode(db, r1, udata_lookup_user(u), p, m, t)
        /\ StatAfterOpen(mstor_do_operation(r1.db, r1.next_nid, r1.next_cid,
                                            ReqOpen(u, p, at), hostLE),
                         u, p, m, t, at)

\* C18: in every state of an open store, for every user, path, mode and
\* times: when creat(path, mode, ctime) succeeds it adds exactly one node
\* record under a fresh nid and one child entry in the parent and changes
\* nothing else; when the following open(path, atime) succeeds too, stat(path)
\* reports a non-directory of length 0 with the mode given to creat, the
\* user's uid and gid, mtime = ctime and atime = the atime given to open
C18_CreatOpenStatRoundTrip ==
    opened =>
        \A u \in UserNames, p \in Paths, m \in CreatModes, t \in CreatTimes,
           at \in OpenTimes :
            OpenAfterCreat(Do(ReqCreat(u, p, m, t)), u, p, m, t, at)

\* a store where alice has created and opened /a/b: stat finds its atime
\* moved away from its mtime
C18_Witness ==
    /\ opened
    /\ Lookup(db, <<"a", "b">>) # NoNid
    /\ ~IsDir(db, Lookup(db, <<"a", "b">>))
    /\ \E m \in CreatModes, t \in CreatTimes, at \in OpenTimes :
           /\ t # at
           /\ db.n[Lookup(db, <<"a", "b">>)] =
                  Payload(m, t, at, 0, udata_lookup_user("alice").uid,
                          udata_lookup_user("alice").gid)
           /\ StatOfOpenedFile(Do(ReqStat("alice", <<"a", "b">>)),
                               udata_lookup_user("alice"), <<"a", "b">>, m, t, at)

(***************************************************************************)
(* mkdirs on the store as mstor_init formats it.                           *)
(***************************************************************************)
\* the store is as mstor_init leaves an empty database
FreshStore ==
    /\ opened
    /\ \E t \in FormatTimes :
           /\ db = mstor_init(EmptyDb, t).db
           /\ next_nid = mstor_init(EmptyDb, t).next_nid

\* stat of path q reports a directory of mode m made at t by user
StatReportsDir(s, user, q, m, t) ==
    /\ s.ret = "OK"
    /\ Len(s.out) = 1
    /\ s.out[1].name = Last(q)
    /\ BitAnd(s.out[1].mode_and_type, MNODE_IS_DIR) # 0
    /\ BitClear(s.out[1].mode_and_type, MNODE_IS_DIR) = m
    /\ s.out[1].uid = user.uid
    /\ s.out[1].gid = user.gid
    /\ s.out[1].mtime = t
    /\ s.out[1].atime = t

\* the child entries of database d whose value is nid
EntriesNaming(d, nid) == {k \in DOMAIN d.c : unpack_from_be64(d.c[k]) = nid}

MkdirsMadeEveryPrefix(r, u, p, m, t) ==
    /\ r.ret = "OK"
    /\ \A i \in 1..Len(p) :
           /\ StatReportsDir(mstor_do_operation(r.db, r.next_nid, r.next_cid,
                                                ReqStat(u, SubSeq(p, 1, i)), hostLE),
                             udata_lookup_user(u), SubSeq(p, 1, i), m, t)
           /\ Lookup(r.db, SubSeq(p, 1, i)) \notin DOMAIN db.n
           /\ EntriesNaming(r.db, Lookup(r.db, SubSeq(p, 1, i)))
                  = {<<Lookup(r.db, SubSeq(p, 1, i - 1)), p[i]>>}
           /\ \A j \in 1..Len(p) :
                  i # j => Lookup(r.db, SubSeq(p, 1, i)) # Lookup(r.db, SubSeq(p, 1, j))
    /\ Cardinality(DOMAIN r.db.n) = Cardinality(DOMAIN db.n) + Len(p)
    /\ Cardinality(DOMAIN r.db.c) = Len(p)
    /\ mstor_do_operation(r.db, r.next_nid, r.next_cid,
                          ReqMkdirs(u, p, m, t), hostLE).ret = "OK"
    /\ mstor_do_operation(r.db, r.next_nid, r.next_cid,
                          ReqMkdirs(u, p, m, t), hostLE).db = r.db

\* C19: on a store just formatted, mkdirs by the superuser of a path of two
\* or more components (all missing) succeeds; afterwards stat of every
\* non-empty prefix reports a directory with the requested mode, the
\* requester's uid and gid and mtime = atime = ctime; each directory made has
\* a nid of its own that the store did not hold, and exactly one child entry,
\* in its parent under its name; a second mkdirs of the same path succeeds
\* and leaves every record as it was
C19_MkdirsOnFreshStore ==
    FreshStore =>
        \A p \in Paths, m \in MkdirModes, t \in MkdirTimes :
            Len(p) >= 2 =>
                MkdirsMadeEveryPrefix(Do(ReqMkdirs("root", p, m, t)), "root", p, m, t)

\* the store right after mkdirs("/a/b") by root on the formatted store
C19_Witness ==
    /\ opened
    /\ \E ft \in FormatTimes, m \in MkdirModes, t \in MkdirTimes :
           db = mstor_do_operation(mstor_init(EmptyDb, ft).db,
                                   mstor_init(EmptyDb, ft).next_nid,
                                   mstor_init(EmptyDb, ft).next_cid,
                                   ReqMkdirs("root", <<"a", "b">>, m, t), hostLE).db
    /\ Lookup(db, <<"a", "b">>) # NoNid
    /\ IsDir(db, Lookup(db, <<"a", "b">>))
    /\ Lookup(db, <<"a">>) # Lookup(db, <<"a", "b">>)

(***************************************************************************)
(* The end-to-end scenario: requests on /a/b/c and /a/b/f served in a row  *)
(* on a store just formatted.  mc.log is the history of the run: each      *)
(* request served, with its return value and its output.                   *)
(***************************************************************************)
PathABC == <<"a", "b", "c">>
PathAB == <<"a", "b">>
PathABF == <<"a", "b", "f">>

InitScenario ==
    /\ \E t \in FormatTimes :
          \E r \in {mstor_init(EmptyDb, t)} :
              db = r.db /\ next_nid = r.next_nid /\ next_cid = r.next_cid
    /\ opened = TRUE
    /\ hostLE \in BOOLEAN
    /\ nput = 0
    /\ mc = [log |-> <<>>]
    /\ allocs = <<>>

ServeScenario(req) ==
    \E r \in {Do(req)} :
        /\ db' = r.db
        /\ next_nid' = r.next_nid
        /\ next_cid' = r.next_cid
        /\ opened' = (r.ret # "ABORT")
        /\ mc' = [log |-> Append(mc.log, [req |-> req, ret |-> r.ret, out |-> r.out])]
        /\ UNCHANGED <<hostLE, nput, allocs>>

ScenarioMkdirs ==
    /\ opened /\ Len(mc.log) < MaxSteps
    /\ \E p \in {PathAB, PathABC}, m \in MkdirModes, t \in MkdirTimes :
           ServeScenario(ReqMkdirs("root", p, m, t))

ScenarioCreat ==
    /\ opened /\ Len(mc.log) < MaxSteps
    /\ \E u \in Callers, m \in CreatModes, t \in CreatTimes :
           ServeScenario(ReqCreat(u, PathABF, m, t))

ScenarioOpen ==
    /\ opened /\ Len(mc.log) < MaxSteps
    /\ \E u \in Callers, t \in OpenTimes : ServeScenario(ReqOpen(u, PathABF, t))

ScenarioListdir ==
    /\ opened /\ Len(mc.log) < MaxSteps
    /\ \E u \in Callers : ServeScenario(ReqListdir(u, PathAB))

NextScenario == ScenarioMkdirs \/ ScenarioCreat \/ ScenarioOpen \/ ScenarioListdir

SpecScenario == InitScenario /\ [][NextScenario]_vars

\* the run so far is mkdirs("/a/b/c", 0755, 100), creat("/a/b/f", 0644, 200),
\* open("/a/b/f", 250), all successful, and then listdir("/a/b")
ScenarioRun ==
    /\ Len(mc.log) >= 4
    /\ mc.log[1].req.op = "mkdirs" /\ mc.log[1].req.path = PathABC
    /\ mc.log[1].req.mode = 493 /\ mc.log[1].req.ctime = 100
    /\ mc.log[1].ret = "OK"
    /\ mc.log[2].req.op = "creat" /\ mc.log[2].req.path = PathABF
    /\ mc.log[2].req.mode = 420 /\ mc.log[2].req.ctime = 200
    /\ mc.log[2].ret = "OK"
    /\ mc.log[3].req.op = "open" /\ mc.log[3].req.path = PathABF
    /\ mc.log[3].req.atime = 250
    /\ mc.log[3].ret = "OK"
    /\ mc.log[4].req.op = "listdir" /\ mc.log[4].req.path = PathAB

\* C20 as stated: after mkdirs("/a/b/c"), creat("/a/b/f") and open("/a/b/f")
\* on a fresh store, listdir("/a/b") returns exactly one entry, named "f"
C20_ListdirOneEntry ==
    (mc # <<>> /\ ScenarioRun) =>
        /\ mc.log[4].ret = "OK"
        /\ Len(mc.log[4].out) = 1
        /\ mc.log[4].out[1].name = "f"

\* C20 amended: after mkdirs("/a/b/c"), creat("/a/b/f") and open("/a/b/f") on
\* a fresh store, listdir("/a/b") returns exactly two entries: the directory
\* "c" and then the file "f" as creat and open left it
C20_ListdirTwoEntries ==
    (mc # <<>> /\ ScenarioRun) =>
        /\ mc.log[4].ret = "OK"
        /\ Len(mc.log[4].out) = 2
        /\ mc.log[4].out[1].name = "c"
        /\ mc.log[4].out[1].mode_and_type = BitOr(493, MNODE_IS_DIR)
        /\ mc.log[4].out[1].mtime = 100 /\ mc.log[4].out[1].atime = 100
        /\ mc.log[4].out[2].name = "f"
        /\ mc.log[4].out[2].mode_and_type = 420
        /\ mc.log[4].out[2].length = 0
        /\ mc.log[4].out[2].mtime = 200 /\ mc.log[4].out[2].atime = 250

\* the scenario has run to its listdir, and the listing holds an entry "f"
C20_Witness ==
    /\ mc # <<>>
    /\ ScenarioRun
    /\ mc.log[4].ret = "OK"
    /\ \E i \in DOMAIN mc.log[4].out : mc.log[4].out[i].name = "f"

(***************************************************************************)
(* chown and chgrp.                                                        *)
(***************************************************************************)
NewUsers == {"", "alice", "bob"}
NewGroups == {"", "g1", "g2"}

IsSuperuser(user) == user.uid = RF_SUPERUSER_UID

\* database d with the owner of node nid set as chown(nu, ng) asks
Chowned(d, nid, nu, ng) ==
    [d EXCEPT !.n = With(d.n, nid,
        [d.n[nid] EXCEPT
            !.uid = IF nu # "" THEN udata_lookup_user(nu).uid ELSE d.n[nid].uid,
            !.gid = IF ng # "" THEN udata_lookup_group(ng) ELSE d.n[nid].gid])]

ChownRule(r, user, nid, nu, ng) ==
    /\ (nu # "" /\ ~IsSuperuser(user)) => (r.ret = "EPERM" /\ r.db = db)
    /\ IsSuperuser(user) => (r.ret = "OK" /\ r.db = Chowned(db, nid, nu, ng))
    /\ (nu = "" /\ ng # "" /\ ~IsSuperuser(user)) =>
           /\ r.ret = "OK" <=> ( /\ user.uid = db.n[nid].uid
                                 /\ user_in_gid(user, udata_lookup_group(ng)) )
           /\ r.ret # "OK" => (r.ret = "EPERM" /\ r.db = db)
           /\ r.ret = "OK" => r.db = Chowned(db, nid, "", ng)

\* C21: for every caller whom the walk lets reach an existing node: a chown
\* naming a new user is rejected with EPERM unless the caller is the
\* superuser, with or without a new group; the superuser's chown succeeds; a
\* chown naming only a new group by another caller succeeds exactly when the
\* caller's uid is the node's uid and the caller is in the new group; a
\* rejection leaves the database as it was, a success changes only the uid
\* and/or gid of that node
C21_ChownPolicy ==
    opened =>
        \A u \in UserNames, p \in Paths, nu \in NewUsers, ng \in NewGroups :
            ( /\ Lookup(db, p) # NoNid
              /\ CanTraverse(db, udata_lookup_user(u), p)
              /\ (nu # "" \/ ng # "") )
            => ChownRule(Do(ReqChown(u, p, nu, ng)), udata_lookup_user(u),
                         Lookup(db, p), nu, ng)

\* /a belongs to alice with the superuser's group (a chown has given it to
\* her): alice may move it to her group, bob, a member who is not the owner,
\* may not, and neither may hand it to bob
C21_Witness ==
    /\ opened
    /\ Lookup(db, <<"a">>) # NoNid
    /\ db.n[Lookup(db, <<"a">>)].uid = udata_lookup_user("alice").uid
    /\ db.n[Lookup(db, <<"a">>)].gid = RF_SUPERUSER_GID
    /\ Do(ReqChown("alice", <<"a">>, "", "g1")).ret = "OK"
    /\ Do(ReqChown("bob", <<"a">>, "", "g1")).ret = "EPERM"
    /\ Do(ReqChown("alice", <<"a">>, "bob", "g1")).ret = "EPERM"

(***************************************************************************)
(* Handlers of two threads, interleaved at the calls that write to the     *)
(* engine.  A handler reads the database when its request begins and draws *)
(* its ids then; the engine applies each of its calls later, one at a      *)
(* time, with the calls of the other thread in between.  mc.th[t] is the   *)
(* request of thread t, the calls ws it makes and the number k of them the *)
(* engine has applied; every state is what a reader may find.              *)
(***************************************************************************)
IdleHandler == [req |-> [op |-> "none"], ws |-> <<>>, k |-> 0]

InitEngine ==
    /\ \E t \in FormatTimes :
          \E r \in {mstor_init(EmptyDb, t)} :
              db = r.db /\ next_nid = r.next_nid /\ next_cid = r.next_cid
    /\ opened = TRUE
    /\ hostLE \in BOOLEAN
    /\ nput = 0
    /\ mc = [th |-> [t \in Threads |-> IdleHandler], calls |-> 0]
    /\ allocs = <<>>

BeginRequest(t, req) ==
    /\ opened
    /\ mc.th[t].k = Len(mc.th[t].ws)
    /\ mc.calls < MaxRequests
    /\ \E r \in {Do(req)} :
           /\ r.next_nid < MSTOR_NID_MAX
           /\ r.next_cid < MSTOR_CID_MAX
           /\ next_nid' = r.next_nid
           /\ next_cid' = r.next_cid
           /\ mc' = [th |-> [mc.th EXCEPT ![t] = [req |-> req, ws |-> r.writes, k |-> 0]],
                     calls |-> mc.calls + 1]
    /\ UNCHANGED <<db, opened, hostLE, nput, allocs>>

EngineCreat ==
    /\ mc.calls < MaxRequests
    /\ \E t \in Threads, p \in Paths, m \in CreatModes, c \in CreatTimes :
           BeginRequest(t, ReqCreat("root", p, m, c))

EngineMkdirs ==
    /\ mc.calls < MaxRequests
    /\ \E t \in Threads, p \in Paths, m \in MkdirModes, c \in MkdirTimes :
           BeginRequest(t, ReqMkdirs("root", p, m, c))

EngineChunkalloc ==
    /\ mc.calls < MaxRequests
    /\ \E t \in Threads, nid \in 0..MaxNid, off \in Offs :
           BeginRequest(t, ReqChunkalloc("root", nid, off, 0))

EngineUtimes ==
    /\ mc.calls < MaxRequests
    /\ \E t \in Threads, p \in Paths, a \in UtimesArgs :
           BeginRequest(t, ReqUtimes("root", p, a[1], a[2]))

EngineChmod ==
    /\ mc.calls < MaxRequests
    /\ \E t \in Threads, p \in Paths, m \in ChmodModes :
           BeginRequest(t, ReqChmod("root", p, m))

EngineRmdir ==
    /\ mc.calls < MaxRequests
    /\ \E t \in Threads, p \in Paths :
           BeginRequest(t, ReqRmdir("root", p, TRUE))

\* the engine applies the next call of thread t
EngineWrite ==
    /\ opened
    /\ \E t \in Threads :
           /\ mc.th[t].k < Len(mc.th[t].ws)
           /\ db' = engine_apply(db, mc.th[t].ws[mc.th[t].k + 1])
           /\ mc' = [mc EXCEPT !.th[t].k = @ + 1]
    /\ UNCHANGED <<next_nid, next_cid, opened, hostLE, nput, allocs>>

NextEngine ==
    \/ EngineCreat \/ EngineMkdirs \/ EngineChunkalloc \/ EngineUtimes
    \/ EngineChmod \/ EngineRmdir \/ EngineWrite

SpecEngine == InitEngine /\ [][NextEngine]_vars

\* the call w creates one directory: one child entry and the node it names
CreatesOneDirectory(w) ==
    /\ Cardinality(DOMAIN w.pc) = 1
    /\ Cardinality(DOMAIN w.pn) = 1
    /\ \A k \in DOMAIN w.pc : unpack_from_be64(w.pc[k]) \in DOMAIN w.pn
    /\ \A nid \in DOMAIN w.pn : BitAnd(w.pn[nid].mode_and_type, MNODE_IS_DIR) # 0
    /\ DOMAIN w.pf = {} /\ DOMAIN w.ph = {} /\ w.dc = {} /\ w.dn = {}

\* C22: a request other than mkdirs makes at most one call that writes to the
\* engine, and every call of a mkdirs is a batch that creates one directory;
\* under every interleaving of the calls of two threads, each child entry in
\* the database names a node whose record is there, and each file-chunk
\* record holds a chunk id whose replicas record is there
C22_OneWritePerChange ==
    /\ \A t \in Threads :
           /\ mc.th[t].req.op # "mkdirs" => Len(mc.th[t].ws) <= 1
           /\ mc.th[t].req.op = "mkdirs" =>
                  \A i \in DOMAIN mc.th[t].ws : CreatesOneDirectory(mc.th[t].ws[i])
    /\ \A k \in DOMAIN db.c : unpack_from_be64(db.c[k]) \in DOMAIN db.n
    /\ \A k \in DOMAIN db.f :
           \E cid \in DOMAIN db.h : db.f[k] = host_bytes64(cid, hostLE)

\* a mkdirs of two directories stands between its two batches, the first
\* directory in the database and the second not, while the other thread has
\* a creat or a chunkalloc whose batch the engine has not yet applied
C22_Witness ==
    \E t \in Threads, o \in Threads :
        /\ t # o
        /\ mc.th[t].req.op = "mkdirs"
        /\ Len(mc.th[t].ws) = 2
        /\ mc.th[t].k = 1
        /\ mc.th[o].req.op \in {"creat", "chunkalloc"}
        /\ Len(mc.th[o].ws) = 1
        /\ mc.th[o].k = 0
        /\ DOMAIN db.c # {}

(***************************************************************************)
(* The engine resources over the life of a store.  A call is the resource  *)
(* it concerns and whether it acquires or releases it; mc.log is the       *)
(* sequence of calls made so far.  fail names the step of                  *)
(* mstor_leveldb_init that fails, "none" when all succeed.                 *)
(***************************************************************************)
Acquire(res) == [res |-> res, acquire |-> TRUE]
Release(res) == [res |-> res, acquire |-> FALSE]

InitFailures == {"none", "lopt", "open", "lreadopt", "lwropt"}

\* mstor_leveldb_shutdown
mstor_leveldb_shutdown_calls ==
    <<Release("lreadopt"), Release("lwropt"), Release("lcache"), Release("ldb")>>

\* the error label of mstor_leveldb_init: each resource held is released
leveldb_init_error_calls(held) ==
    SelectSeq(<<Release("ldb"), Release("lreadopt"), Release("lwropt"),
                Release("lcache")>>,
              LAMBDA c : c.res \in held)

mstor_leveldb_init_calls(fail) ==
    IF fail = "lopt" THEN [ret |-> "ENOMEM", calls |-> <<>>]
    ELSE IF fail = "open"
    THEN [ret |-> "EIO",
          calls |-> <<Acquire("lopt"), Acquire("lcache"), Release("lopt")>>
                    \o leveldb_init_error_calls({"lcache"})]
    ELSE IF fail = "lreadopt"
    THEN [ret |-> "ENOMEM",
          calls |-> <<Acquire("lopt"), Acquire("lcache"), Acquire("ldb"),
                      Release("lopt")>>
                    \o leveldb_init_error_calls({"lcache", "ldb"})]
    ELSE IF fail = "lwropt"
    THEN [ret |-> "ENOMEM",
          calls |-> <<Acquire("lopt"), Acquire("lcache"), Acquire("ldb"),
                      Release("lopt"), Acquire("lreadopt")>>
                    \o leveldb_init_error_calls({"lcache", "ldb", "lreadopt"})]
    ELSE [ret |-> "OK",
          calls |-> <<Acquire("lopt"), Acquire("lcache"), Acquire("ldb"),
                      Release("lopt"), Acquire("lreadopt"), Acquire("lwropt")>>]

\* mstor_init: after mstor_leveldb_init the database is formatted or loaded;
\* when that fails the resources are released by mstor_leveldb_shutdown
mstor_init_calls(d, t, fail) ==
    LET after(li, r) ==
            IF li.ret # "OK" THEN [ret |-> li.ret, calls |-> li.calls, store |-> r]
            ELSE IF r.ret # "OK"
            THEN [ret |-> r.ret, calls |-> li.calls \o mstor_leveldb_shutdown_calls,
                  store |-> r]
            ELSE [ret |-> "OK", calls |-> li.calls, store |-> r]
    IN  after(mstor_leveldb_init_calls(fail), mstor_init(d, t))

InitLife ==
    /\ hostLE \in BOOLEAN
    /\ db \in {[s EXCEPT !.v = v] : s \in OpenStores(hostLE), v \in VersionRecords}
    /\ next_nid = 0
    /\ next_cid = 0
    /\ opened = FALSE
    /\ nput = 0
    /\ mc = [ret |-> "none", log |-> <<>>]
    /\ allocs = <<>>

LifeInit ==
    /\ mc.ret = "none"
    /\ \E t \in FormatTimes, fail \in InitFailures :
          \E r \in {mstor_init_calls(db, t, fail)} :
              /\ opened' = (r.ret = "OK")
              /\ db' = IF r.ret = "OK" THEN r.store.db ELSE db
              /\ next_nid' = IF r.ret = "OK" THEN r.store.next_nid ELSE 0
              /\ next_cid' = IF r.ret = "OK" THEN r.store.next_cid ELSE 0
              /\ mc' = [ret |-> r.ret, log |-> mc.log \o r.calls]
    /\ UNCHANGED <<hostLE, nput, allocs>>

\* mstor_shutdown
LifeShutdown ==
    /\ opened
    /\ mc.ret = "OK"
    /\ opened' = FALSE
    /\ mc' = [ret |-> "shutdown", log |-> mc.log \o mstor_leveldb_shutdown_calls]
    /\ UNCHANGED <<db, next_nid, next_cid, hostLE, nput, allocs>>

NextLife == LifeInit \/ LifeShutdown

SpecLife == InitLife /\ [][NextLife]_vars

\* the four resources the store keeps
StoreResources == {"lcache", "ldb", "lreadopt", "lwropt"}

Acquired(log) ==
    SelectSeq(log, LAMBDA c : c.acquire /\ c.res \in StoreResources)
Released(log) ==
    SelectSeq(log, LAMBDA c : ~c.acquire /\ c.res \in StoreResources)

\* C23: once mstor_shutdown has run, the four resources (block cache, engine
\* handle, read options, write options, built in this order) have been
\* released in the reverse of the order of their construction; the engine
\* handle was closed before the block cache was destroyed
C23_ShutdownReversesConstruction ==
    (mc # <<>> /\ mc.ret = "shutdown") =>
        /\ [i \in 1..Len(Acquired(mc.log)) |-> Acquired(mc.log)[i].res]
               = <<"lcache", "ldb", "lreadopt", "lwropt">>
        /\ [i \in 1..Len(Released(mc.log)) |-> Released(mc.log)[i].res]
               = <<"lwropt", "lreadopt", "ldb", "lcache">>
        /\ \E i, j \in 1..Len(mc.log) :
               /\ i < j
               /\ mc.log[i] = Release("ldb")
               /\ mc.log[j] = Release("lcache")

(***************************************************************************)
(* chunkfind.                                                              *)
(***************************************************************************)
RECURSIVE Ascending(_)
Ascending(S) ==
    IF S = {} THEN <<>> ELSE <<SetMin(S)>> \o Ascending(S \ {SetMin(S)})

\* the start offsets of the chunks of file nid
ChunkStarts(d, nid) == {k[2] : k \in {x \in DOMAIN d.f : x[1] = nid}}

\* the start offsets of the chunks of nid that a lookup of [start, end]
\* concerns: the last one at or before start, and the later ones up to end
Qualifying(d, nid, start, end) ==
    IF {o \in ChunkStarts(d, nid) : o <= start} = {} THEN <<>>
    ELSE Ascending({o \in ChunkStarts(d, nid) :
                      /\ o >= SetMax({b \in ChunkStarts(d, nid) : b <= start})
                      /\ (o <= end \/ o <= start)})

FindRanges == {<<0, 0>>, <<0, 4096>>, <<1, 4095>>, <<4096, 8192>>, <<5000, 5000>>}

ChunkfindReports(r, q, mx) ==
    r.ret = "OK" =>
        /\ r.out.num_cinfos = (IF Len(q) < mx THEN Len(q) ELSE mx)
        /\ [i \in 1..r.out.num_cinfos |-> r.out.cinfos[i].start]
               = SubSeq(q, 1, r.out.num_cinfos)

\* C24: chunkfind on a file with range [start, end] and room for max_cinfos
\* entries returns min(k, max_cinfos) entries in ascending order of start
\* offset, the k qualifying chunks being the file's chunk with the greatest
\* start offset <= start and its later chunks with start offset <= end; it
\* returns none when the file has no chunk at or before start, and no chunk
\* of another file
C24_ChunkfindResult ==
    opened =>
        \A p \in Paths, g \in FindRanges, mx \in 1..3 :
            (Lookup(db, p) # NoNid /\ ~IsDir(db, Lookup(db, p))) =>
                ChunkfindReports(Do(ReqChunkfind("root", p, g[1], g[2], mx)),
                                 Qualifying(db, Lookup(db, p), g[1], g[2]), mx)

(***************************************************************************)
(* listdir on directories of various modes.  The modes give the owner, the *)
(* group and everyone else the same bits, so which class the caller falls  *)
(* in plays no part.  mc is the listdir served last.                       *)
(***************************************************************************)
\* 0000, 0111, 0444, 0555, 0777
UniformModes == {0, 73, 292, 365, 511}

InitListdir ==
    /\ \E t \in FormatTimes :
          \E r \in {mstor_init(EmptyDb, t)} :
              db = r.db /\ next_nid = r.next_nid /\ next_cid = r.next_cid
    /\ opened = TRUE
    /\ hostLE = FALSE
    /\ nput = 0
    /\ mc = [ret |-> "none", used |-> 0]
    /\ allocs = <<>>

ServeListdir(req) ==
    \E r \in {Do(req)} :
        /\ db' = r.db
        /\ next_nid' = r.next_nid
        /\ next_cid' = r.next_cid
        /\ mc' = IF req.op = "listdir" THEN [ret |-> r.ret, used |-> Len(r.out)] ELSE mc
        /\ UNCHANGED <<opened, hostLE, nput, allocs>>

ListdirMkdirs ==
    /\ next_nid <= MaxNid
    /\ \E p \in Paths, m \in UniformModes, t \in MkdirTimes :
           ServeListdir(ReqMkdirs("root", p, m, t))

ListdirChmod ==
    /\ opened
    /\ \E p \in Paths, m \in UniformModes : ServeListdir(ReqChmod("root", p, m))

ListdirListdir ==
    /\ opened
    /\ \E u \in UserNames, p \in Paths : ServeListdir(ReqListdir(u, p))

NextListdir == ListdirMkdirs \/ ListdirChmod \/ ListdirListdir

SpecListdir == InitListdir /\ [][NextListdir]_vars

Grants(d, nid, user, w) ==
    PolicyGrants(d.n[nid].mode_and_type, d.n[nid].uid, d.n[nid].gid, user, w)

\* C25: listdir of a directory by a caller other than the superuser, whom the
\* walk lets reach it, returns EPERM with an empty result when the caller's
\* permission bits on the directory lack EXEC or lack READ
C25_ListdirNeedsReadAndExec ==
    opened =>
        \A u \in UserNames, p \in Paths :
            ( /\ ~IsSuperuser(udata_lookup_user(u))
              /\ Lookup(db, p) # NoNid
              /\ IsDir(db, Lookup(db, p))
              /\ CanTraverse(db, udata_lookup_user(u), p)
              /\ \/ ~Grants(db, Lookup(db, p), udata_lookup_user(u), MSTOR_PERM_READ)
                 \/ ~Grants(db, Lookup(db, p), udata_lookup_user(u), MSTOR_PERM_EXEC) )
            => /\ Do(ReqListdir(u, p)).ret = "EPERM"
               /\ Do(ReqListdir(u, p)).out = <<>>

\* the requests that name a path, made by u on p
RequestsOn(u, p) ==
    {ReqCreat(u, p, m, t) : m \in CreatModes, t \in CreatTimes}
    \cup {ReqMkdirs(u, p, m, t) : m \in MkdirModes, t \in MkdirTimes}
    \cup {ReqOpen(u, p, t) : t \in OpenTimes}
    \cup {ReqChmod(u, p, m) : m \in ChmodModes}
    \cup {ReqRmdir(u, p, rmr) : rmr \in BOOLEAN}
    \cup {ReqChown(u, p, a[1], a[2]) : a \in ChownArgs}
    \cup {ReqUtimes(u, p, a[1], a[2]) : a \in UtimesArgs}
    \cup {ReqListdir(u, p), ReqStat(u, p), ReqChunkfind(u, p, 0, 4096, 3)}

TypeCheckOnNode(val) ==
    \A u \in Users, want \in CheckWants, flags \in ArrivalFlags :
        LET want_dir == BitAnd(want, MNODE_IS_DIR) # 0
            is_dir == BitAnd(val.mode_and_type, MNODE_IS_DIR) # 0
            ret == mstor_mode_check(val, flags, u, want)
        IN  /\ (want_dir /\ ~is_dir) => ret = "ENOTDIR"
            /\ (~want_dir /\ is_dir) => ret = "EISDIR"
            /\ (want_dir = is_dir /\ flags = 0) => ret = "OK"

\* C26: mstor_mode_check returns ENOTDIR when IS_DIR is wanted of a node that
\* is not a directory and EISDIR when it is not wanted of a directory, with
\* CHECK_PERMS set or clear; open and chunkalloc on a directory return EISDIR
\* and a request whose path passes through a regular file returns ENOTDIR,
\* for the superuser as for anyone the walk lets that far
C26_TypeCheckBeforeBypass ==
    opened =>
        /\ \A nid \in DOMAIN db.n : TypeCheckOnNode(db.n[nid])
        /\ \A u \in Callers, p \in Paths :
              ( /\ Lookup(db, p) # NoNid
                /\ IsDir(db, Lookup(db, p))
                /\ CanTraverse(db, udata_lookup_user(u), p) )
              => /\ \A t \in OpenTimes : Do(ReqOpen(u, p, t)).ret = "EISDIR"
                 /\ \A off \in Offs, fl \in ArrivalFlags :
                       Do(ReqChunkalloc(u, Lookup(db, p), off, fl)).ret = "EISDIR"
        /\ \A u \in Callers, p \in Paths :
              ( /\ Len(p) = 2
                /\ Lookup(db, Front(p)) # NoNid
                /\ ~IsDir(db, Lookup(db, Front(p)))
                /\ CanTraverse(db, udata_lookup_user(u), Front(p)) )
              => \A req \in RequestsOn(u, p) : Do(req).ret = "ENOTDIR"

C26_Witness ==
    /\ opened
    /\ Lookup(db, <<"a">>) # NoNid
    /\ ~IsDir(db, Lookup(db, <<"a">>))
    /\ Lookup(db, <<"b">>) # NoNid
    /\ IsDir(db, Lookup(db, <<"b">>))
    /\ Do(ReqStat("root", <<"a", "b">>)).ret = "ENOTDIR"
    /\ Do(ReqOpen("root", <<"b">>, 250)).ret = "EISDIR"
    /\ Do(ReqChunkalloc("root", Lookup(db, <<"b">>), 0, 0)).ret = "EISDIR"

(***************************************************************************)
(* mkdirs by every user with modes that give the owner, the group and      *)
(* everyone else the same bits, between chmods by the superuser, on a      *)
(* store whose root directory the superuser has given such a mode.  mc is  *)
(* the mkdirs served last: who asked, the mode, the result and the number  *)
(* of directories it made.                                                 *)
(***************************************************************************)
MkdirsModes == {0, 365, 511}

InitMkdirs ==
    /\ \E t \in FormatTimes, m \in MkdirsModes :
          \E r \in {RunScript(mstor_init(EmptyDb, t),
                              <<ReqChmod("root", <<>>, m)>>, FALSE)} :
              db = r.db /\ next_nid = r.next_nid /\ next_cid = r.next_cid
    /\ opened = TRUE
    /\ hostLE = FALSE
    /\ nput = 0
    /\ mc = [user |-> "", mode |-> 0, ret |-> "none", made |-> 0]
    /\ allocs = <<>>

MkdirsMkdirs ==
    /\ next_nid <= MaxNid
    /\ \E u \in UserNames, p \in Paths, m \in MkdirsModes, t \in MkdirTimes :
          \E r \in {Do(ReqMkdirs(u, p, m, t))} :
              /\ db' = r.db
              /\ next_nid' = r.next_nid
              /\ next_cid' = r.next_cid
              /\ mc' = [user |-> u, mode |-> m, ret |-> r.ret,
                        made |-> r.next_nid - next_nid]
              /\ UNCHANGED <<opened, hostLE, nput, allocs>>

MkdirsChmod ==
    /\ opened
    /\ \E p \in Paths, m \in MkdirsModes :
          \E r \in {Do(ReqChmod("root", p, m))} :
              /\ db' = r.db
              /\ UNCHANGED <<next_nid, next_cid, opened, hostLE, nput, mc, allocs>>

NextMkdirs == MkdirsMkdirs \/ MkdirsChmod

SpecMkdirs == InitMkdirs /\ [][NextMkdirs]_vars

\* every prefix of p longer than k names a directory of d made for the user
\* with the given permission bits
MadeBelow(d, p, k, user, m) ==
    \A i \in (k + 1)..Len(p) :
        LET nid == Lookup(d, SubSeq(p, 1, i))
        IN  /\ nid # NoNid
            /\ d.n[nid].mode_and_type = m + MNODE_IS_DIR
            /\ d.n[nid].uid = user.uid
            /\ d.n[nid].gid = user.gid

\* mkdirs of p by user, whose first missing component is the k-th and whom
\* the walk lets reach its parent
MkdirsRule(user, p, k, m, t) ==
    LET parent == Lookup(db, SubSeq(p, 1, k - 1))
        r == Do(ReqMkdirs(user.name, p, m, t))
    IN  IF Grants(db, parent, user, MSTOR_PERM_WRITE)
        THEN /\ r.ret = "OK"
             /\ r.next_nid = next_nid + (Len(p) - k + 1)
             /\ MadeBelow(r.db, p, k - 1, user, m)
        ELSE /\ r.ret = "EPERM"
             /\ r.db = db
             /\ r.next_nid = next_nid

WithAtime(d, nid, at) == [d EXCEPT !.n = With(d.n, nid, [d.n[nid] EXCEPT !.atime = at])]

\* open(p, at) by user on a store where p names the node nid
OpenRule(user, p, nid, at) ==
    LET r == Do(ReqOpen(user.name, p, at))
        refused(err) == r.ret = err /\ r.db = db /\ r.writes = <<>>
    IN  /\ r.next_nid = next_nid
        /\ r.next_cid = next_cid
        /\ IF IsDir(db, nid) THEN refused("EISDIR")
           ELSE IF IsSuperuser(user) \/ Grants(db, nid, user, MSTOR_PERM_READ)
           THEN /\ r.ret = "OK"
                /\ r.out.nid = nid
                /\ r.db = WithAtime(db, nid, at)
                /\ Len(r.writes) = 1
                /\ engine_apply(db, r.writes[1]) = r.db
           ELSE refused("EPERM")

ChmodRule(user, p, nid, m) ==
    LET r == Do(ReqChmod(user.name, p, m))
        kept == BitAnd(db.n[nid].mode_and_type, MNODE_IS_DIR)
        hdr == [db.n[nid] EXCEPT !.mode_and_type = BitClear(m, MNODE_IS_DIR) + kept]
    IN  /\ r.ret = "OK"
        /\ r.db = [db EXCEPT !.n = With(db.n, nid, hdr)]
        /\ IsDir(r.db, nid) = IsDir(db, nid)
        /\ r.next_nid = next_nid
        /\ r.next_cid = next_cid

ChmodFrame ==
    opened =>
        \A u \in UserNames, p \in Paths, m \in ChmodModes \cup CreatModes \cup MkdirModes :
            ( /\ Lookup(db, p) # NoNid
              /\ CanTraverse(db, udata_lookup_user(u), p) )
            => ChmodRule(udata_lookup_user(u), p, Lookup(db, p), m)

\* a step leaves every node it keeps a file if it was a file and a directory
\* if it was a directory
TypeKept ==
    \A nid \in DOMAIN db.n \cap DOMAIN db'.n : IsDir(db', nid) = IsDir(db, nid)

\* C29: chmod(path, mode) puts the requested permission bits on the node and
\* keeps the node's IS_DIR bit, whether or not the requested mode has that bit;
\* times, length, owner, group and every other record stay as they were; and
\* no step of the store changes a file into a directory or a directory into a
\* file
C29_ChmodKeepsType == []ChmodFrame /\ [][TypeKept]_vars

\* the file /a has been through chmod (no permission bits left) beside the
\* directory /b: each keeps its type under a chmod that asks for the other
C29_Witness ==
    /\ opened
    /\ Lookup(db, <<"a">>) # NoNid
    /\ db.n[Lookup(db, <<"a">>)].mode_and_type = 0
    /\ Lookup(db, <<"b">>) # NoNid
    /\ IsDir(db, Lookup(db, <<"b">>))
    /\ Do(ReqChmod("root", <<"a">>, MNODE_IS_DIR)).db = db
    /\ Do(ReqChmod("root", <<"b">>, 0)).db.n[Lookup(db, <<"b">>)].mode_and_type
          = MNODE_IS_DIR


\* the times utimes is asked to set: a time, or the sentinel for "leave it"
UtimesTimes == {300, RF_INVAL_TIME}

\* the value a time field takes when utimes is given the argument arg
TimeAfter(arg, old) == IF arg # RF_INVAL_TIME THEN arg ELSE old

\* utimes(p, at, mt) by user on a store where p names the node nid, and the
\* stat of p by the same user before and after it
UtimesRule(user, p, nid, at, mt) ==
    LET r == Do(ReqUtimes(user.name, p, at, mt))
        hdr == [db.n[nid] EXCEPT !.atime = TimeAfter(at, @), !.mtime = TimeAfter(mt, @)]
        s0 == Do(ReqStat(user.name, p))
        s1 == mstor_do_operation(r.db, r.next_nid, r.next_cid,
                                 ReqStat(user.name, p), hostLE)
    IN  /\ r.ret = "OK"
        /\ r.db = [db EXCEPT !.n = With(db.n, nid, hdr)]
        /\ r.next_nid = next_nid
        /\ r.next_cid = next_cid
        /\ s1.ret = s0.ret
        /\ s0.ret = "OK" =>
              /\ Len(s1.out) = 1
              /\ s1.out[1] = [s0.out[1] EXCEPT !.atime = TimeAfter(at, @),
                                               !.mtime = TimeAfter(mt, @)]
              /\ at # RF_INVAL_TIME => s1.out[1].atime = at
              /\ mt # RF_INVAL_TIME => s1.out[1].mtime = mt

\* C30: utimes(path, atime, mtime) sets the node's atime exactly when the
\* atime given is not the sentinel and its mtime exactly when the mtime given
\* is not the sentinel; the stat that follows reports the values given, a
\* field whose argument is the sentinel keeps the value it had, and mode,
\* type, length, uid and gid (and every other record) are unchanged
C30_UtimesRoundTrip ==
    opened =>
        \A u \in UserNames, p \in Paths, at \in UtimesTimes, mt \in UtimesTimes :
            ( /\ Lookup(db, p) # NoNid
              /\ CanTraverse(db, udata_lookup_user(u), p) )
            => UtimesRule(udata_lookup_user(u), p, Lookup(db, p), at, mt)

\* utimes has set the atime of /a and left its mtime, and stat reports both
C30_Witness ==
    /\ opened
    /\ Lookup(db, <<"a">>) # NoNid
    /\ db.n[Lookup(db, <<"a">>)].atime = 300
    /\ db.n[Lookup(db, <<"a">>)].mtime \in CreatTimes \cup MkdirTimes
    /\ Do(ReqStat("root", <<"a">>)).ret = "OK"
    /\ Do(ReqStat("root", <<"a">>)).out[1].atime = 300
    /\ Do(ReqStat("root", <<"a">>)).out[1].mtime = db.n[Lookup(db, <<"a">>)].mtime

(***************************************************************************)
(* Opening a store one engine write at a time, with the process stopping   *)
(* in between.  mc.pc is where the process stands: "closed" (no process),  *)
(* "version" and "root" (mstor_leveldb_create_new before its first and     *)
(* before its second leveldb_put), "open" (mstor_init has returned the     *)
(* store).  mc.ret is what the last mstor_init returned, mc.log the keys   *)
(* it wrote, mc.fresh whether the store is as formatting left it.          *)
(***************************************************************************)
MaxCrashes == 2

InitFormat ==
    /\ db = EmptyDb
    /\ next_nid = 0
    /\ next_cid = 0
    /\ opened = FALSE
    /\ hostLE = FALSE
    /\ nput = 0
    /\ mc = [pc |-> "closed", ret |-> "none", log |-> <<>>, fresh |-> FALSE]
    /\ allocs = <<>>

\* mstor_init up to the first write: an empty database is formatted, any
\* other is loaded
FormatOpen ==
    /\ mc.pc = "closed"
    /\ IF mstor_leveldb_is_empty(db)
       THEN /\ mc' = [pc |-> "version", ret |-> "none", log |-> <<>>, fresh |-> FALSE]
            /\ UNCHANGED <<db, next_nid, next_cid, opened>>
       ELSE \E r \in {mstor_leveldb_load(db)} :
              /\ mc' = [pc |-> IF r.ret = "OK" THEN "open" ELSE "closed",
                        ret |-> r.ret, log |-> <<>>, fresh |-> FALSE]
              /\ next_nid' = r.next_nid
              /\ next_cid' = r.next_cid
              /\ opened' = (r.ret = "OK")
              /\ db' = db
    /\ UNCHANGED <<hostLE, nput, allocs>>

FormatWriteVersion ==
    /\ mc.pc = "version"
    /\ db' = mstor_write_version(db, MSTOR_CUR_VERSION)
    /\ mc' = [mc EXCEPT !.pc = "root", !.log = Append(@, "v")]
    /\ UNCHANGED <<next_nid, next_cid, opened, hostLE, nput, allocs>>

FormatWriteRoot ==
    /\ mc.pc = "root"
    /\ \E t \in FormatTimes : db' = create_new_root(db, t)
    /\ next_nid' = MSTOR_ROOT_NID + 1
    /\ opened' = TRUE
    /\ mc' = [mc EXCEPT !.pc = "open", !.ret = "OK", !.log = Append(@, "n"),
                        !.fresh = TRUE]
    /\ UNCHANGED <<next_cid, hostLE, nput, allocs>>

\* the process stops: what it wrote stays, what it held in memory is gone
FormatCrash ==
    /\ mc.pc # "closed"
    /\ nput < MaxCrashes
    /\ nput' = nput + 1
    /\ mc' = [mc EXCEPT !.pc = "closed", !.fresh = FALSE]
    /\ next_nid' = 0
    /\ next_cid' = 0
    /\ opened' = FALSE
    /\ UNCHANGED <<db, hostLE, allocs>>

FormatCreat ==
    /\ mc.pc = "open"
    /\ next_nid <= MaxNid
    /\ \E u \in Callers, p \in Paths, m \in CreatModes, t \in CreatTimes :
          \E r \in {Do(ReqCreat(u, p, m, t))} :
              /\ db' = r.db
              /\ next_nid' = r.next_nid
              /\ next_cid' = r.next_cid
              /\ mc' = [mc EXCEPT !.fresh = FALSE]
    /\ UNCHANGED <<opened, hostLE, nput, allocs>>

NextFormat ==
    \/ FormatOpen
    \/ FormatWriteVersion
    \/ FormatWriteRoot
    \/ FormatCrash
    \/ FormatCreat

SpecFormat == InitFormat /\ [][NextFormat]_vars

\* the store holds the version record and the root directory and nothing else
FormattedStore(d) ==
    /\ d.v = MSTOR_VERSION_MAGIC \o pack_to_be32(1)
    /\ DOMAIN d.n = {0}
    /\ d.n[0].mode_and_type = 493 + MNODE_IS_DIR
    /\ d.n[0].uid = RF_SUPERUSER_UID
    /\ d.n[0].gid = RF_SUPERUSER_GID
    /\ d.n[0].length = 0
    /\ d.n[0].mtime = d.n[0].atime
    /\ DOMAIN d.c = {} /\ DOMAIN d.f = {} /\ DOMAIN d.h = {}

\* C31: when mstor_init has formatted an empty store, the store holds exactly
\* the version record ("Fish", version 1) and the root node (mode 0755 |
\* IS_DIR, superuser uid and gid, length 0, mtime = atime), the version
\* record was written before the root node, next_nid is 1, and the first
\* node created gets nid 1
C31_FormatEmptyStore ==
    mc.fresh =>
        /\ mc.ret = "OK"
        /\ FormattedStore(db)
        /\ mc.log = <<"v", "n">>
        /\ next_nid = 1
        /\ \A u \in Callers, nm \in Names, m \in CreatModes, t \in CreatTimes :
              LET r == Do(ReqCreat(u, <<nm>>, m, t))
              IN  r.ret = "OK" => Lookup(r.db, <<nm>>) = 1 /\ DOMAIN r.db.n = {0, 1}

C31_Witness ==
    /\ mc.fresh
    /\ mc.pc = "open"
    /\ Do(ReqCreat("root", <<"a">>, 420, 200)).ret = "OK"

\* C36: whenever the process stops while formatting an empty store, the next
\* mstor_init succeeds and the store it yields holds the version record and
\* the root node
C36_FormatSurvivesCrash ==
    /\ mc.ret # "EINVAL"
    /\ mc.pc = "open" => (db.v # <<>> /\ MSTOR_ROOT_NID \in DOMAIN db.n)

(***************************************************************************)
(* listdir beside another handler.  The iterator of mstor_do_listdir reads *)
(* the child entries as they were when it was created, while each          *)
(* mstor_fetch_node reads the database as it is by then.  mc.pc is         *)
(* "listing" between the two; mc.snap is the child entries the iterator    *)
(* sees, mc.dir the directory listed, mc.out the records returned,         *)
(* mc.gone the names whose node was absent at the fetch, and mc.rm the     *)
(* write batch of an rmdir that has not reached the engine yet.            *)
(***************************************************************************)
NotListing == [pc |-> "idle", dir |-> 0, snap |-> <<>>, ret |-> "none", out |-> <<>>,
               gone |-> {}, rm |-> <<>>]

InitRace ==
    /\ \E t \in FormatTimes :
          \E r \in {mstor_init(EmptyDb, t)} :
              db = r.db /\ next_nid = r.next_nid /\ next_cid = r.next_cid
    /\ opened = TRUE
    /\ hostLE = FALSE
    /\ nput = 0
    /\ mc = NotListing
    /\ allocs = <<>>

\* another handler makes a file or a directory
RaceMake ==
    /\ next_nid <= MaxNid
    /\ \E p \in Paths :
          \E req \in {ReqCreat("root", p, 420, 200), ReqMkdirs("root", p, 493, 100)} :
              \E r \in {Do(req)} :
                  /\ db' = r.db
                  /\ next_nid' = r.next_nid
                  /\ next_cid' = r.next_cid
    /\ UNCHANGED <<opened, hostLE, nput, mc, allocs>>

\* another handler serves rmdir up to its leveldb_write: the batch is made
RaceRmdirBegin ==
    /\ mc.rm = <<>>
    /\ \E p \in Paths, rmr \in BOOLEAN :
          \E r \in {Do(ReqRmdir("root", p, rmr))} :
              /\ r.writes # <<>>
              /\ mc' = [mc EXCEPT !.rm = r.writes]
    /\ UNCHANGED <<db, next_nid, next_cid, opened, hostLE, nput, allocs>>

\* the leveldb_write of that rmdir
RaceRmdirWrite ==
    /\ mc.rm # <<>>
    /\ db' = engine_apply(db, mc.rm[1])
    /\ mc' = [mc EXCEPT !.rm = <<>>]
    /\ UNCHANGED <<next_nid, next_cid, opened, hostLE, nput, allocs>>

\* listdir up to the creation of its iterator
RaceBegin ==
    /\ mc.pc # "listing"
    /\ \E u \in Callers, p \in Paths :
          /\ Do(ReqListdir(u, p)).ret = "OK"
          /\ mc' = [NotListing EXCEPT !.pc = "listing", !.dir = Lookup(db, p),
                                      !.snap = db.c, !.rm = mc.rm]
    /\ UNCHANGED <<db, next_nid, next_cid, opened, hostLE, nput, allocs>>

\* the loop of listdir over the entries of its iterator
RaceEnd ==
    /\ mc.pc = "listing"
    /\ \E view \in {[db EXCEPT !.c = mc.snap]} :
          mc' = [mc EXCEPT
                   !.pc = "done",
                   !.ret = "OK",
                   !.out = listdir_loop(view, mc.dir, ChildNames(view, mc.dir), <<>>),
                   !.gone = {nm \in Names :
                               /\ <<mc.dir, nm>> \in DOMAIN mc.snap
                               /\ unpack_from_be64(mc.snap[<<mc.dir, nm>>])
                                     \notin DOMAIN db.n}]
    /\ UNCHANGED <<db, next_nid, next_cid, opened, hostLE, nput, allocs>>

NextRace == RaceMake \/ RaceRmdirBegin \/ RaceRmdirWrite \/ RaceBegin \/ RaceEnd

SpecRace == InitRace /\ [][NextRace]_vars

\* the names of the records, in the order returned
RecordNames(out) == [i \in 1..Len(out) |-> out[i].name]

\* C32: a listdir that meets child entries whose node record is absent
\* returns success with one stat record for each of the directory's other
\* child entries, in ascending order of name
C32_ListdirSkipsMissingNode ==
    mc.pc = "done" =>
        /\ mc.ret = "OK"
        /\ RecordNames(mc.out)
             = SelectSeq(NameSeq, LAMBDA nm : /\ <<mc.dir, nm>> \in DOMAIN mc.snap
                                              /\ nm \notin mc.gone)

\* one entry was gone at the fetch and another was returned
C32_Witness ==
    /\ mc.pc = "done"
    /\ mc.gone # {}
    /\ mc.out # <<>>

\* thread t has a request of kind op on path p whose one put the engine has
\* applied
PutDone(t, op, p) ==
    /\ mc.th[t].req.op = op
    /\ mc.th[t].req.path = p
    /\ Len(mc.th[t].ws) = 1
    /\ mc.th[t].k = 1

\* the payload thread t put under nid
PutOf(t, nid) == mc.th[t].ws[1].pn[nid]

CreatDone(t, p) ==
    /\ mc.th[t].req.op = "creat"
    /\ mc.th[t].req.path = p
    /\ Len(mc.th[t].ws) = 1
    /\ mc.th[t].k = 1

\* the node records no child entry points to, the root aside
Orphans(d) ==
    {nid \in DOMAIN d.n \ {MSTOR_ROOT_NID} :
        \A k \in DOMAIN d.c : unpack_from_be64(d.c[k]) # nid}

\* C35: two threads never both return success from a creat of the same
\* path with both their node records in the store, and no node record is
\* left that no child entry points to
C35_ConcurrentCreat ==
    /\ \A p \in Paths :
          ~ ( /\ CreatDone(1, p) /\ CreatDone(2, p)
              /\ DOMAIN mc.th[1].ws[1].pn \subseteq DOMAIN db.n
              /\ DOMAIN mc.th[2].ws[1].pn \subseteq DOMAIN db.n )
    /\ Orphans(db) = {}

(***************************************************************************)
(* The store opened under a configuration record.  mc.conf is the record   *)
(* handed to mstor_init (JORM_INVAL_INT for an option left out),           *)
(* mc.min_repl and mc.man_repl the fields of the store after               *)
(* mstor_leveldb_init, mc.seen the man_repl of the records that the last   *)
(* stat or listdir returned.                                               *)
(***************************************************************************)
ConfRepl == {JORM_INVAL_INT, 0, 1, 2, RF_MAX_OID, RF_MAX_OID + 1}

InitConf ==
    /\ \E t \in FormatTimes :
          \E r \in {mstor_init(EmptyDb, t)} :
              db = r.db /\ next_nid = r.next_nid /\ next_cid = r.next_cid
    /\ opened = TRUE
    /\ hostLE = FALSE
    /\ nput = 0
    /\ mc \in [conf : [min_repl : ConfRepl, man_repl : ConfRepl],
               min_repl : {min_repl}, man_repl : {man_repl}, seen : {{}}]
    /\ allocs = <<>>

ConfMake ==
    /\ next_nid <= MaxNid
    /\ \E p \in Paths :
          \E req \in {ReqCreat("root", p, 420, 200), ReqMkdirs("root", p, 493, 100)} :
              \E r \in {Do(req)} :
                  /\ db' = r.db
                  /\ next_nid' = r.next_nid
                  /\ next_cid' = r.next_cid
    /\ UNCHANGED <<opened, hostLE, nput, mc, allocs>>

ConfStat ==
    /\ opened
    /\ \E p \in Paths :
          \E req \in {ReqStat("root", p), ReqListdir("root", p)} :
              \E r \in {Do(req)} :
                  /\ r.ret = "OK"
                  /\ mc' = [mc EXCEPT !.seen = {r.out[i].man_repl : i \in DOMAIN r.out}]
    /\ UNCHANGED <<db, next_nid, next_cid, opened, hostLE, nput, allocs>>

NextConf == ConfMake \/ ConfStat

SpecConf == InitConf /\ [][NextConf]_vars

\* C34: every stat and listdir record reports the man_repl of the
\* configuration record brought into 1..RF_MAX_OID (3 when left out), and the
\* store's min_repl is the configured min_repl brought into the same range
\* (2 when left out)
C34_ReplFromConfiguration ==
    /\ mc.seen \subseteq {get_valid_repl(mc.conf.man_repl, MSTOR_DEFAULT_MAN_REPL)}
    /\ mc.man_repl = get_valid_repl(mc.conf.man_repl, MSTOR_DEFAULT_MAN_REPL)
    /\ mc.min_repl = get_valid_repl(mc.conf.min_repl, MSTOR_DEFAULT_MIN_REPL)

\* d2 is d with directories added for the components from-th to to-th of p,
\* and nothing else changed
DirsAdded(d, d2, p, from, to) ==
    LET made == {Lookup(d2, SubSeq(p, 1, i)) : i \in from..to}
    IN  /\ NoNid \notin made
        /\ DOMAIN d2.n = DOMAIN d.n \cup made
        /\ made \cap DOMAIN d.n = {}
        /\ Cardinality(made) = to - from + 1
        /\ \A nid \in made : IsDir(d2, nid)
        /\ \A nid \in DOMAIN d.n : d2.n[nid] = d.n[nid]
        /\ Cardinality(DOMAIN d2.c) = Cardinality(DOMAIN d.c) + (to - from + 1)
        /\ \A k \in DOMAIN d.c : k \in DOMAIN d2.c /\ d2.c[k] = d.c[k]
        /\ d2.f = d.f /\ d2.h = d.h /\ d2.v = d.v

\* what the request leaves in the store, given how it returned
ErrorFrame(req, r) ==
    /\ req.op \in {"stat", "listdir", "chunkfind"} => r.db = db /\ r.writes = <<>>
    /\ (r.ret \notin {"OK", "ABORT"} /\ req.op # "mkdirs") =>
           r.db = db /\ r.writes = <<>>
    /\ (r.ret \notin {"OK", "ABORT"} /\ req.op = "mkdirs") =>
           \/ r.db = db /\ r.writes = <<>>
           \/ \E to \in FirstMissing(db, req.path)..(Len(req.path) - 1) :
                  /\ DirsAdded(db, r.db, req.path, FirstMissing(db, req.path), to)
                  /\ Len(r.writes) = to - FirstMissing(db, req.path) + 1

\* C37: a request that returns an error leaves every record as it was,
\* except that a mkdirs that fails at some component leaves exactly the
\* directories it made for the earlier components; stat, listdir and
\* chunkfind change no record whether they fail or not
C37_ErrorsWriteNothing ==
    opened =>
        /\ \A u \in UserNames, p \in Paths :
              \A req \in RequestsOn(u, p) : ErrorFrame(req, Do(req))
        /\ \A u \in UserNames, nid \in 0..MSTOR_NID_MAX, off \in Offs, fl \in ArrivalFlags :
              ErrorFrame(ReqChunkalloc(u, nid, off, fl),
                         Do(ReqChunkalloc(u, nid, off, fl)))

\* on this store a mkdirs of /b/a makes /b and then fails for want of a node
\* id, a creat of the existing /a/a fails, and so does an open of the
\* directory /a
C37_Witness ==
    /\ opened
    /\ Do(ReqMkdirs("root", <<"b", "a">>, 493, 100)).ret = "EOVERFLOW"
    /\ Do(ReqMkdirs("root", <<"b", "a">>, 493, 100)).db # db
    /\ Do(ReqCreat("alice", <<"a", "a">>, 420, 200)).ret = "EEXIST"
    /\ Do(ReqOpen("alice", <<"a">>, 250)).ret = "EISDIR"


\* C38: after a mkdirs that returns success the path resolves to a directory;
\* a mkdirs of a path one of whose components, the last included, is a
\* regular file returns an error
C38_MkdirsEndsInDirectory ==
    opened =>
        \A u \in UserNames, p \in Paths, m \in MkdirModes, t \in MkdirTimes :
            LET r == Do(ReqMkdirs(u, p, m, t))
            IN  /\ r.ret = "OK" =>
                      /\ Lookup(r.db, p) # NoNid
                      /\ IsDir(r.db, Lookup(r.db, p))
                /\ (\E i \in 1..Len(p) :
                        /\ Lookup(db, SubSeq(p, 1, i)) # NoNid
                        /\ ~IsDir(db, Lookup(db, SubSeq(p, 1, i))))
                   => r.ret # "OK"

\* C39: chmod and utimes by a caller who is neither the superuser nor the
\* owner of the node the path resolves to return EPERM and leave the node
\* record as it was
C39_ChmodUtimesOwnerOnly ==
    opened =>
        \A user \in Users, p \in Paths :
            LET nid == Lookup(db, p)
            IN  (/\ nid # NoNid
                 /\ ~IsSuperuser(user)
                 /\ user.uid # db.n[nid].uid) =>
                    /\ \A m \in ChmodModes :
                          LET r == Do(ReqChmod(user.name, p, m))
                          IN  r.ret = "EPERM" /\ r.db.n[nid] = db.n[nid]
                    /\ \A a \in UtimesArgs :
                          LET r == Do(ReqUtimes(user.name, p, a[1], a[2]))
                          IN  r.ret = "EPERM" /\ r.db.n[nid] = db.n[nid]

====
